---- MODULE Spec2Model ----
(***************************************************************************)
(* The C boundary layer of zvec (zvec-c-wrapper): status marshaling, the   *)
(* {pointer, count} result containers and their release functions, the     *)
(* ownership tag of document wrappers, and the collection facade.          *)
(*                                                                         *)
(* The collection engine (zvec::Collection and friends) is an external     *)
(* collaborator: every call into it is a nondeterministic choice over the  *)
(* results its interface allows (a value, or an error Status).             *)
(*                                                                         *)
(* The client holds one result slot, `res`, at a time: the pointee of the  *)
(* out-parameter it passes.  A call may be handed the slot when the slot   *)
(* holds a container of the call's kind, or when it holds nothing that     *)
(* still has to be released; the client works on one result at a time.     *)
(* `last` records the call that has just returned, for as long as the      *)
(* client looks at its result; the client makes its next call after        *)
(* ClientContinues.                                                        *)
(***************************************************************************)
EXTENDS Integers, Sequences, FiniteSets, TLC

(* ---------------------------------------------------------------- bounds *)
\* longest docs / pks array a client passes to a batch call
MaxBatch == 2
\* most documents the engine returns in one list (query, one group, fetch)
MaxDocs == 2
\* most groups the engine returns from a group-by query
MaxGroups == 1
\* most names in a string array
MaxNames == 2
\* longest vector or array a client stores in a document or a query
MaxVec == 2
\* most deallocations of one message by zvec_status_free that are counted
MaxFrees == 2

(* ---------------------------------------------------- zvec_status_code_t *)
ZVEC_STATUS_OK == 0
ZVEC_STATUS_NOT_FOUND == 1
ZVEC_STATUS_ALREADY_EXISTS == 2
ZVEC_STATUS_INVALID_ARGUMENT == 3
ZVEC_STATUS_INTERNAL_ERROR == 5

\* the null pointer
NULL == "NULL"

\* what a function returning void "returns"
NoStatus == [code |-> -1, message |-> NULL]

(* ------------------------------------------------------- status channel *)
\* zvec_wrapper::ok_status
ok_status == [code |-> ZVEC_STATUS_OK, message |-> NULL]

\* a C status from an engine Status: the code is cast through, the message is
\* strdup'ed unless it is empty, and then it is the null pointer
to_c_status_always_copy(status) ==
    [code |-> status.code, message |-> status.message]
to_c_status(status) ==
    [code    |-> status.code,
     message |-> IF status.message = "" THEN NULL ELSE status.message]

\* the locally generated failure of every argument check
InvalidArgument_no_message(msg) ==
    [code |-> ZVEC_STATUS_INVALID_ARGUMENT, message |-> NULL]
InvalidArgument(msg) == [code |-> ZVEC_STATUS_INVALID_ARGUMENT, message |-> msg]

\* `status.ok() ? ok_status() : to_c_status(status)`
ForwardStatus_generic(status) ==
    IF status.code = ZVEC_STATUS_OK THEN ok_status
    ELSE [code |-> ZVEC_STATUS_INTERNAL_ERROR, message |-> "engine error"]
ForwardStatus_always_ok(status) == ok_status
ForwardStatus(status) ==
    IF status.code = ZVEC_STATUS_OK THEN ok_status ELSE to_c_status(status)

(* --------------------------------------------- the engine, as seen here *)
\* zvec::Status values the engine hands back
EngineOK == [code |-> ZVEC_STATUS_OK, message |-> ""]
EngineErrors ==
    { [code |-> ZVEC_STATUS_NOT_FOUND,      message |-> ""],
      [code |-> ZVEC_STATUS_INTERNAL_ERROR, message |-> "engine error"] }
EngineStatuses == {EngineOK} \cup EngineErrors

\* tl::expected<T, Status>: an error, or one of the values in `values`
Expected(values) ==
    { [ok |-> FALSE, error |-> e, value |-> <<>>] : e \in EngineErrors }
    \cup { [ok |-> TRUE, error |-> EngineOK, value |-> v] : v \in values }

\* Collection::Insert / Upsert / Update / Delete on n rows: an error, or
\* one Status per row the engine was given
WriteResults(n) == Expected([1..n -> EngineStatuses])

(* ------------------------------------------------------ argument values *)
SeqsUpTo(S, n) == UNION { [1..k -> S] : k \in 0..n }

Min(a, b) == IF a < b THEN a ELSE b

\* a pointer argument: null, or pointing at something valid
PtrArgs == {NULL, "ptr"}

\* a docs array: the null pointer with some count, or count handles each
\* of which is null or a document
DocBatches ==
    { [null |-> TRUE, elems |-> <<>>, count |-> n] : n \in {0, 1} }
    \cup { [null |-> FALSE, elems |-> s, count |-> Len(s)] :
             s \in SeqsUpTo({NULL, "doc"}, MaxBatch) }

\* a pks array: the null pointer with some count, or the first count of the
\* client's keys (keys are numbered)
PkBatches ==
    { [null |-> TRUE, elems |-> <<>>, count |-> n] : n \in {0, 1} }
    \cup { [null |-> FALSE, elems |-> [i \in 1..n |-> i], count |-> n] :
             n \in 0..MaxBatch }

\* the names of the arguments of a call that are null
NullArgs(pairs) == { p[1] : p \in { q \in pairs : q[2] = NULL } }

(* ------------------------------------------------------ document values *)
\* the field names a client uses
Fields == {"f", "g"}

\* the entry of a field in zvec::Doc: the C++ type its value was stored as
\* (`doc->set(name, T value)` selects the alternative by T), the setter of
\* the C interface that stored it, and the value
Value(type, kind, val) == [type |-> type, kind |-> kind, val |-> val]
Absent == Value("absent", "none", <<>>)
Null == Value("null", "null", <<>>)

\* a zvec_doc_new() document: no field
NoDoc == [f \in Fields |-> Absent]

\* a zvec_vector_query_new() query: query_sparse_indices_ and
\* query_sparse_values_ are empty
NoQuery == [sparse_indices |-> <<>>, sparse_values |-> <<>>]

\* the values a client passes to the setters of the kinds that have a
\* getter: scalars, strings, and arrays with their length (len elements at
\* data)
Scalars == {0, 1}
Strings == {"", "a"}
Arrays == { [i \in 1..n |-> i] : n \in 0..MaxVec }
\* the values it passes to the setters of the kinds that have no getter
\* (nothing of this interface reads them back)
Unread == {1}
UnreadArrays == {<<1>>}

(* ---------------------------------------------------- collection options *)
\* a uint64_t and a uint32_t, as 16-bit words from the least significant
\* one on: four words and two
Word == 2^16
U64s ==
    { <<0, 0, 0, 0>>, <<1, 0, 0, 0>>,
      <<Word - 1, Word - 1, 0, 0>>,                \* 2^32 - 1
      <<0, 0, 1, 0>>,                              \* 2^32
      <<1, 0, 1, 0>>,                              \* 2^32 + 1
      <<Word - 1, Word - 1, Word - 1, Word - 1>> } \* 2^64 - 1

\* `static_cast<uint32_t>(max_buffer_size)`: the two low words are kept
Cast32_saturating(v) ==
    IF v[3] = 0 /\ v[4] = 0 THEN <<v[1], v[2]>> ELSE <<Word - 1, Word - 1>>
Cast32(v) == <<v[1], v[2]>>

\* zvec::CollectionOptions as this layer sees it: read_only_, enable_mmap_
\* and max_buffer_size_; the values a default-constructed one and the one
\* of an open collection may have
OptionValues ==
    { [read_only |-> r, enable_mmap |-> m, max_buffer_size |-> <<0, 1024>>] :
        r \in BOOLEAN, m \in {TRUE} }

\* the names of the columns DDL calls are made with
ColumnNames == {"c"}

\* `std::make_shared<zvec::CollectionSchema>(result.value())`: the handle
\* gets a CollectionSchema of its own, copy-constructed from the engine's
SchemaCopy_live(cols) == [owned |-> TRUE, live |-> TRUE, columns |-> cols]
SchemaCopy(cols) == [owned |-> TRUE, live |-> FALSE, columns |-> cols]

\* how an accessor makes what it stores through its out-parameter:
\* `strdup(result.value().c_str())` for the path, `new` for the handles;
\* the stats are written into the caller's struct
Made(what) ==
    CASE what = "path" -> "strdup"
      [] what \in {"schema", "options"} -> "new"
      [] OTHER -> "none"

(* ------------------------------------------------- document wrappers *)
\* a zvec::Doc behind a shared_ptr: whether it is a copy the wrapper layer
\* made, whether the engine still holds a reference, the use count, and
\* whether it has been destroyed
EngineDoc(retained) ==
    [copy |-> FALSE, engine |-> retained,
     refs |-> IF retained THEN 2 ELSE 1, live |-> TRUE]
CopiedDoc == [copy |-> TRUE, engine |-> FALSE, refs |-> 1, live |-> TRUE]

\* one shared_ptr to the document goes away
Unref(obj) ==
    LET n == IF obj.refs > 0 THEN obj.refs - 1 ELSE 0
    IN  [obj EXCEPT !.refs = n, !.live = (n > 0)]

\* a zvec_doc_t: allocated or not, its ownership tag, how often it was
\* deallocated, whether the client passed it to zvec_doc_free, its document
Wrapper(owned, obj) ==
    [alloc |-> TRUE, owned |-> owned, frees |-> 0, byClient |-> FALSE,
     obj |-> obj]

\* the zvec_doc_t zvec_doc_new makes: `doc->ptr = std::make_shared<zvec::Doc>();
\* doc->owned = true`
MadeDoc ==
    Wrapper(TRUE, [copy |-> FALSE, engine |-> FALSE, refs |-> 1, live |-> TRUE])

(* ------------------------------------------------------- schema values *)
\* zvec_data_type_t: a scalar type and a vector type
ZVEC_DATA_TYPE_INT32 == 4
ZVEC_DATA_TYPE_VECTOR_FP32 == 23
DataTypes == {ZVEC_DATA_TYPE_INT32, ZVEC_DATA_TYPE_VECTOR_FP32}

\* the dimensions a client passes
Dimensions == {0, 4}

\* the client's zvec_field_schema_t handles; each, once made, holds a
\* shared pointer to the zvec::FieldSchema made with it
FieldHandles == {"h1", "h2"}

\* a zvec::FieldSchema
FieldSchema(name, data_type, dimension, nullable) ==
    [name |-> name, data_type |-> data_type, dimension |-> dimension,
     nullable |-> nullable, index_params |-> NULL]
NoField == FieldSchema(NULL, 0, 0, FALSE)

(* ------------------------------------------------- registered components *)
\* the four listings: metrics, builders, searchers, streamers
Kinds == {"metrics", "builders", "searchers", "streamers"}

\* the implementations the engine registers, in the order it registers them
RegNames == <<"first", "second">>

\* `m.c_str()`: a pointer into a string of the cache; it is stale once that
\* string is destroyed
CStr(name) == [name |-> name, stale |-> FALSE]

\* two threads
Threads == {1, 2}

(* ---------------------------------------------------------------- state *)
VARIABLES
    storage,     \* whether the engine holds a collection at the path
    collection,  \* the client's zvec_collection_t*: "none", "live", "freed",
                 \* or "destroyed": allocated, Collection::Destroy succeeded
    res,         \* the client's result slot (pointee of its out-parameter)
    last,        \* the call that returned last: arguments, result, effects
    theDoc,      \* the fields of the client's document (a zvec_doc_t it made)
    theQuery,    \* the sparse vector of the client's zvec_vector_query_t
    messages,    \* per entry of the write results in the slot: whether its
                 \* Status came with a message, how often that message was
                 \* deallocated
    registry,    \* per kind, how many implementations the engine's
                 \* IndexFactory has registered
    cache,       \* per kind, the two function-local statics of the listing
                 \* function: the strings and the pointers to them
    firstList,   \* per kind, what the first call that returned has returned
    threads,     \* the threads inside zvec_list_registered_metrics
    fieldObjs,   \* per field handle of the client, the zvec::FieldSchema
                 \* made with it
    theSchema,   \* the client's zvec_collection_schema_t (one it made)
    columns,     \* the engine's schema of the collection at the path: the
                 \* columns added to the ones it was created with
    collOptions, \* the engine's options of the collection at the path
    docHandle    \* the zvec_doc_t of the client's document

vars == <<storage, collection, res, last, theDoc, theQuery, messages,
          registry, cache, firstList, threads, fieldObjs, theSchema,
          columns, collOptions, docHandle>>
\* the schemas the client builds
schemavars == <<fieldObjs, theSchema>>
\* what the calls on a schema leave alone, the slot apart
beyondSchema ==
    <<storage, collection, messages, theDoc, theQuery,
      registry, cache, firstList, threads, columns, collOptions, docHandle>>
\* the state of the process that no handle leads to
statics == <<registry, cache, firstList, threads>>
\* what is reached through the client's handles and its result slot
handlevars ==
    <<storage, collection, res, messages, theDoc, theQuery, schemavars,
      columns, collOptions, docHandle>>
\* the objects the client builds itself, and the statics
apart == <<theDoc, theQuery, statics, schemavars, docHandle>>
ownvars == <<apart, columns, collOptions>>
\* what the calls on a collection and its results leave alone (those that
\* fill or release write results say what becomes of `messages`)
docvars == <<ownvars, messages>>
\* what the calls on a document or a query leave alone
collvars ==
    <<storage, collection, res, messages, statics, schemavars,
      columns, collOptions, docHandle>>

\* a result container: kind, its element pointer(s), count and elements
Released(kind) ==
    [kind |-> kind, ptr |-> NULL, keys |-> NULL, count |-> 0, elems |-> <<>>]

NoCall ==
    [op       |-> "none",   \* the function called
     null     |-> {},       \* the names of its null arguments
     count    |-> 0,        \* the count argument of a batch call
     status   |-> NoStatus, \* the Status it returned
     engine   |-> FALSE,    \* whether it called into the engine
     error    |-> EngineOK,  \* the zvec::Status the engine reported
     value    |-> FALSE,    \* whether the engine returned a value
     sent     |-> <<>>,     \* batch: the input positions given to the engine
     rows     |-> <<>>,     \* batch: the engine's per-row statuses
     uaf      |-> FALSE,    \* whether it read or wrote freed memory
     deallocs |-> <<>>,     \* what it deallocated, in order
     arg      |-> <<>>,     \* release: the elements of its argument, after
     handle   |-> NULL,     \* constructor: the handle it returned
     out      |-> <<>>,     \* getter: what it wrote through its out-pointer
     field    |-> NULL,     \* document call: its field argument
     val      |-> <<>>,     \* setter: the value it was given
     found    |-> FALSE,    \* getter, predicate: the bool it returned
     len      |-> 0,        \* vector getter: the length it returned
     deref    |-> {},       \* the null arguments it dereferenced
     dangling |-> FALSE,    \* getter: what it stored in *out is destroyed
     frees    |-> <<>>,     \* zvec_write_results_free: `messages`, this call
                            \* counted in
     lives    |-> "none"]   \* accessor: how what it stored in *out was made

Init ==
    /\ storage \in BOOLEAN
    /\ collection = "none"
    /\ res = Released("none")
    /\ last = NoCall
    /\ theDoc = NoDoc
    /\ theQuery = NoQuery
    /\ messages = <<>>
    /\ registry = [kind \in Kinds |-> 0]
    \* `static std::vector<std::string> cached_metrics;
    \*  static std::vector<const char*> cached_ptrs;`: both empty
    /\ cache = [kind \in Kinds |-> [strings |-> <<>>, ptrs |-> <<>>]]
    \* no listing call has returned
    /\ firstList = [kind \in Kinds |-> [called |-> FALSE, names |-> <<>>]]
    \* each thread is outside the function
    /\ threads = [t \in Threads |-> [pc |-> "out", i |-> 0, count |-> 0]]
    /\ fieldObjs = [h \in FieldHandles |-> NoField]
    \* no zvec_collection_schema_t; one holds a zvec::CollectionSchema, which
    \* holds a sequence of shared pointers to zvec::FieldSchema objects
    \* (each named by the handle that made the object it points at)
    /\ theSchema = [made |-> FALSE, fields |-> <<>>]
    /\ columns = {}
    /\ collOptions \in { opts \in OptionValues : ~opts.read_only }
    /\ docHandle = MadeDoc

\* no call is being looked at: the client may make one
Idle == last.op = "none"

\* the client is done with what the call returned and goes on (there is
\* no going on after a null pointer was dereferenced)
ClientContinues ==
    /\ ~Idle
    /\ last.deref = {}
    /\ UNCHANGED docvars
    /\ last' = NoCall
    /\ UNCHANGED <<storage, collection, res>>

\* the collection handles a client can pass: null, or the handle it holds
\* (destroy_storage leaves the handle allocated and its engine pointer set)
Held == collection \in {"live", "destroyed"}
CollArgs == IF Held THEN {NULL, "ptr"} ELSE {NULL}

\* the document handles a client can pass: null, or the one it has
DocArgs == IF docHandle.alloc THEN {NULL, "ptr"} ELSE {NULL}

\* the slot may be passed as the out-parameter of a call of this kind
IsReleased(r) == r.ptr = NULL /\ r.keys = NULL /\ r.count = 0
Usable(kind) == res.kind \in {kind, "none", "acc"} \/ IsReleased(res)

\* the pointee as the callee sees it
Pointee(kind) == IF res.kind = kind THEN res ELSE Released(kind)

(* ------------------------------------------------------------ batch DML *)
Indices(s) == [i \in 1..Len(s) |-> i]

\* `if (docs[i] && docs[i]->ptr) cpp_docs.push_back(*docs[i]->ptr)`:
\* the input positions that reach the engine
CppDocs(elems) == SelectSeq(Indices(elems), LAMBDA i : elems[i] # NULL)

\* `cpp_pks.emplace_back(pks[i])` for every i
CppPks(elems) == Indices(elems)

\* the messages of a zvec_write_results_t just filled: none deallocated
Messages(r) ==
    [i \in 1..Len(r.elems) |->
        [had |-> r.elems[i].message # NULL, frees |-> 0]]

\* the zvec_write_results_t filled from the engine's rows
WriteResultsOf(rows) ==
    [kind |-> "wres", ptr |-> "alloc", keys |-> NULL, count |-> Len(rows),
     elems |-> [i \in 1..Len(rows) |-> to_c_status(rows[i])]]

\* the Status a batch call returns for the engine's result
BatchStatus_rows(result) ==
    IF ~result.ok THEN to_c_status(result.error)
    ELSE IF \E i \in 1..Len(result.value) : result.value[i].code # ZVEC_STATUS_OK
         THEN to_c_status(result.value[CHOOSE i \in 1..Len(result.value) :
                              result.value[i].code # ZVEC_STATUS_OK])
         ELSE ok_status
BatchStatus(result) ==
    IF result.ok THEN ok_status ELSE to_c_status(result.error)

\* `cpp_docs.push_back(*docs[i]->ptr)`: the zvec::Doc is copy-constructed
\* into the vector the engine is given; the handle and its document are
\* only read
Given_shared(w) == [w EXCEPT !.obj.engine = TRUE, !.obj.refs = 2]
Given(w) == w

\* the body shared by insert, upsert, update (sent = CppDocs) and delete
\* (sent = CppPks)
BatchWrite(op, arrayName, c, batch, out, sent) ==
    LET null == NullArgs({<<"collection", c>>, <<"out_results", out>>})
                \cup (IF batch.null THEN {arrayName} ELSE {})
        call == [NoCall EXCEPT !.op = op, !.null = null, !.count = batch.count]
    IN  /\ Idle
        /\ UNCHANGED <<theDoc, theQuery, statics, schemavars, columns, collOptions>>
        /\ Usable("wres")
        /\ (arrayName = "docs" /\ ~docHandle.alloc)
           => \A i \in 1..Len(batch.elems) : batch.elems[i] = NULL
        /\ IF c = NULL \/ batch.null \/ batch.count = 0
           THEN /\ last' = [call EXCEPT !.status = InvalidArgument("Invalid arguments")]
                /\ UNCHANGED <<storage, collection, res, messages, docHandle>>
           ELSE \E result \in WriteResults(Len(sent)) :
                /\ last' = [call EXCEPT !.status = BatchStatus(result),
                                        !.engine = TRUE, !.error = result.error,
                                        !.value  = result.ok,
                                        !.sent   = sent,
                                        !.rows   = result.value]
                /\ res' = IF result.ok /\ out # NULL
                          THEN WriteResultsOf(result.value)
                          ELSE res
                /\ messages' = IF result.ok /\ out # NULL
                               THEN Messages(WriteResultsOf(result.value))
                               ELSE messages
                /\ docHandle' = IF arrayName = "docs" /\ sent # <<>>
                                THEN Given(docHandle) ELSE docHandle
                /\ UNCHANGED <<storage, collection>>

zvec_collection_insert ==
    \E c \in CollArgs, docs \in DocBatches, out \in PtrArgs :
        BatchWrite("zvec_collection_insert", "docs", c, docs, out, CppDocs(docs.elems))

zvec_collection_upsert ==
    \E c \in CollArgs, docs \in DocBatches, out \in PtrArgs :
        BatchWrite("zvec_collection_upsert", "docs", c, docs, out, CppDocs(docs.elems))

zvec_collection_update ==
    \E c \in CollArgs, docs \in DocBatches, out \in PtrArgs :
        BatchWrite("zvec_collection_update", "docs", c, docs, out, CppDocs(docs.elems))

zvec_collection_delete ==
    \E c \in CollArgs, pks \in PkBatches, out \in PtrArgs :
        BatchWrite("zvec_collection_delete", "pks", c, pks, out, CppPks(pks.elems))

(* --------------------------------------------------------------- status *)
\* zvec_status_ok: `return zvec_wrapper::ok_status()`
zvec_status_ok ==
    /\ Idle
    /\ last' = [NoCall EXCEPT !.op = "zvec_status_ok", !.status = ok_status]
    /\ UNCHANGED <<collvars, docvars>>

(* ------------------------------------------------------------ lifecycle *)
\* Collection::CreateAndOpen: ALREADY_EXISTS when the path holds a
\* collection, else a collection or another failure
EngineCreateAndOpen ==
    IF storage
    THEN { [ok |-> FALSE, error |-> [code |-> ZVEC_STATUS_ALREADY_EXISTS,
                                     message |-> "engine error"]] }
    ELSE { [ok |-> TRUE, error |-> EngineOK],
           [ok |-> FALSE, error |-> [code |-> ZVEC_STATUS_INTERNAL_ERROR,
                                     message |-> "engine error"]] }

\* Collection::Open: NOT_FOUND when the path holds none
EngineOpen ==
    IF storage
    THEN { [ok |-> TRUE, error |-> EngineOK],
           [ok |-> FALSE, error |-> [code |-> ZVEC_STATUS_INTERNAL_ERROR,
                                     message |-> "engine error"]] }
    ELSE { [ok |-> FALSE, error |-> [code |-> ZVEC_STATUS_NOT_FOUND,
                                     message |-> "engine error"]] }

\* `if (result.has_value()) { ... return collection; } ... return nullptr;`
OpenHandle_always(result) == "ptr"
OpenHandle(result) == IF result.ok THEN "ptr" ELSE NULL

\* the body shared by the two constructors: the Status goes to *out_status
\* when out_status is given, the handle is the return value (the client
\* holds one collection handle at a time)
OpenCall(op, null, invalid, msg, out_status, results) ==
    LET call == [NoCall EXCEPT !.op = op, !.null = null] IN
    /\ Idle
    /\ UNCHANGED docvars
    /\ IF invalid
       THEN /\ last' = [call EXCEPT !.status =
                           IF out_status # NULL THEN InvalidArgument(msg)
                           ELSE NoStatus]
            /\ UNCHANGED <<storage, collection, res>>
       ELSE \E result \in results :
            /\ ~Held
            /\ last' = [call EXCEPT
                          !.engine = TRUE, !.error = result.error,
                          !.value  = result.ok,
                          !.handle = OpenHandle(result),
                          !.status = IF out_status = NULL THEN NoStatus
                                     ELSE IF result.ok THEN ok_status
                                     ELSE to_c_status(result.error)]
            /\ collection' = IF OpenHandle(result) # NULL THEN "live"
                             ELSE collection
            /\ storage' = (storage \/ result.ok)
            /\ UNCHANGED res

zvec_collection_create_and_open ==
    \E path \in PtrArgs, schema \in PtrArgs, options \in PtrArgs,
       out_status \in PtrArgs :
        OpenCall("zvec_collection_create_and_open",
                 NullArgs({<<"path", path>>, <<"schema", schema>>,
                           <<"options", options>>, <<"out_status", out_status>>}),
                 path = NULL \/ schema = NULL, "Invalid path or schema",
                 out_status, EngineCreateAndOpen)

zvec_collection_open ==
    \E path \in PtrArgs, options \in PtrArgs, out_status \in PtrArgs :
        OpenCall("zvec_collection_open",
                 NullArgs({<<"path", path>>, <<"options", options>>,
                           <<"out_status", out_status>>}),
                 path = NULL, "Invalid path", out_status, EngineOpen)

\* `delete collection`
zvec_collection_destroy ==
    /\ Idle
    /\ UNCHANGED docvars
    /\ Held
    /\ collection' = "freed"
    /\ last' = [NoCall EXCEPT !.op = "zvec_collection_destroy",
                              !.deallocs = <<[what |-> "collection", at |-> 0]>>]
    /\ UNCHANGED <<storage, res>>

(* ------------------------------------------------------ read accessors *)
\* what the out-parameter of an accessor points at after success
Accessed(what, value) ==
    [kind |-> "acc", ptr |-> what, keys |-> NULL, count |-> 0, elems |-> value]

\* the body shared by path, schema, options and stats: the engine's value is
\* wrapped in a fresh allocation and stored through the out-parameter
Accessor_write_first(op, c, out, what, values) ==
    LET call == [NoCall EXCEPT !.op = op,
                    !.null = NullArgs({<<"collection", c>>, <<"out", out>>})]
    IN  /\ Idle
        /\ UNCHANGED docvars
        /\ Usable("acc")
        /\ IF c = NULL \/ out = NULL
           THEN /\ last' = [call EXCEPT !.status = InvalidArgument("Invalid arguments")]
                /\ UNCHANGED <<storage, collection, res>>
           ELSE \E result \in Expected(values) :
                /\ last' = [call EXCEPT
                              !.status = IF result.ok THEN ok_status
                                         ELSE to_c_status(result.error),
                              !.engine = TRUE, !.error = result.error, !.value = result.ok,
                              !.lives = IF result.ok THEN Made(what) ELSE "none"]
                /\ res' = Accessed(what, result.value)
                /\ UNCHANGED <<storage, collection>>
Accessor(op, c, out, what, values) ==
    LET call == [NoCall EXCEPT !.op = op,
                    !.null = NullArgs({<<"collection", c>>, <<"out", out>>})]
    IN  /\ Idle
        /\ UNCHANGED docvars
        /\ Usable("acc")
        /\ IF c = NULL \/ out = NULL
           THEN /\ last' = [call EXCEPT !.status = InvalidArgument("Invalid arguments")]
                /\ UNCHANGED <<storage, collection, res>>
           ELSE \E result \in Expected(values) :
                /\ last' = [call EXCEPT
                              !.status = IF result.ok THEN ok_status
                                         ELSE to_c_status(result.error),
                              !.engine = TRUE, !.error = result.error, !.value = result.ok,
                              !.lives = IF result.ok THEN Made(what) ELSE "none"]
                /\ res' = IF result.ok THEN Accessed(what, result.value) ELSE res
                /\ UNCHANGED <<storage, collection>>

zvec_collection_path ==
    \E c \in CollArgs, out_path \in PtrArgs :
        Accessor("zvec_collection_path", c, out_path, "path", {<<"/path">>})

zvec_collection_schema ==
    \E c \in CollArgs, out_schema \in PtrArgs :
        Accessor("zvec_collection_schema", c, out_schema, "schema",
                 {<<SchemaCopy(columns)>>})

zvec_collection_options ==
    \E c \in CollArgs, out_options \in PtrArgs :
        Accessor("zvec_collection_options", c, out_options, "options",
                 {<<collOptions>>})

\* memory_usage is always 0 and json_details always null
zvec_collection_stats ==
    \E c \in CollArgs, out_stats \in PtrArgs :
        Accessor("zvec_collection_stats", c, out_stats, "stats",
                 { <<[doc_count |-> n, memory_usage |-> 0, json_details |-> NULL]>> :
                     n \in {0, 1} })

(* ------------------------------------- calls that only return a Status *)
\* Collection::AddColumn and Collection::DropColumn, when they succeed,
\* change the schema the engine holds; the other calls leave it
EngineColumns(op, status) ==
    IF status.code # ZVEC_STATUS_OK THEN columns
    ELSE CASE op = "zvec_collection_add_column" -> columns \cup ColumnNames
           [] op = "zvec_collection_drop_column" -> columns \ ColumnNames
           [] OTHER -> columns

\* argument check, then the engine's Status through ForwardStatus
Forward_unchecked(op, null, invalid, msg) ==
    LET call == [NoCall EXCEPT !.op = op, !.null = null] IN
    /\ Idle
    /\ UNCHANGED <<apart, collOptions, messages>>
    /\ \E status \in EngineStatuses :
         /\ last' = [call EXCEPT !.status = ForwardStatus(status),
                                 !.engine = TRUE, !.error = status,
                                 !.value  = (status.code = ZVEC_STATUS_OK)]
         /\ columns' = EngineColumns(op, status)
    /\ UNCHANGED <<storage, collection, res>>
Forward(op, null, invalid, msg) ==
    LET call == [NoCall EXCEPT !.op = op, !.null = null] IN
    /\ Idle
    /\ UNCHANGED <<apart, collOptions, messages>>
    /\ \/ /\ invalid
          /\ last' = [call EXCEPT !.status = InvalidArgument(msg)]
          /\ UNCHANGED columns
       \/ /\ ~invalid
          /\ \E status \in EngineStatuses :
               /\ last' = [call EXCEPT !.status = ForwardStatus(status),
                                       !.engine = TRUE, !.error = status,
                                       !.value  = (status.code = ZVEC_STATUS_OK)]
               /\ columns' = EngineColumns(op, status)
    /\ UNCHANGED <<storage, collection, res>>

zvec_collection_create_index ==
    \E c \in CollArgs, column_name \in PtrArgs, index_params \in PtrArgs,
       options \in PtrArgs :
        Forward("zvec_collection_create_index",
                NullArgs({<<"collection", c>>, <<"column_name", column_name>>,
                          <<"index_params", index_params>>, <<"options", options>>}),
                c = NULL \/ column_name = NULL \/ index_params = NULL,
                "Invalid arguments")

zvec_collection_drop_index ==
    \E c \in CollArgs, column_name \in PtrArgs :
        Forward("zvec_collection_drop_index",
                NullArgs({<<"collection", c>>, <<"column_name", column_name>>}),
                c = NULL \/ column_name = NULL, "Invalid arguments")

zvec_collection_optimize ==
    \E c \in CollArgs, options \in PtrArgs :
        Forward("zvec_collection_optimize",
                NullArgs({<<"collection", c>>, <<"options", options>>}),
                c = NULL, "Invalid collection")

zvec_collection_add_column ==
    \E c \in CollArgs, column_schema \in PtrArgs, expression \in PtrArgs :
        Forward("zvec_collection_add_column",
                NullArgs({<<"collection", c>>, <<"column_schema", column_schema>>,
                          <<"expression", expression>>}),
                c = NULL \/ column_schema = NULL \/ expression = NULL,
                "Invalid arguments")

zvec_collection_drop_column ==
    \E c \in CollArgs, column_name \in PtrArgs :
        Forward("zvec_collection_drop_column",
                NullArgs({<<"collection", c>>, <<"column_name", column_name>>}),
                c = NULL \/ column_name = NULL, "Invalid arguments")

\* rename and new_column_schema may both be null
zvec_collection_alter_column ==
    \E c \in CollArgs, column_name \in PtrArgs, rename \in PtrArgs,
       new_column_schema \in PtrArgs :
        Forward("zvec_collection_alter_column",
                NullArgs({<<"collection", c>>, <<"column_name", column_name>>,
                          <<"rename", rename>>,
                          <<"new_column_schema", new_column_schema>>}),
                c = NULL \/ column_name = NULL, "Invalid arguments")

zvec_collection_delete_by_filter ==
    \E c \in CollArgs, filter \in PtrArgs :
        Forward("zvec_collection_delete_by_filter",
                NullArgs({<<"collection", c>>, <<"filter", filter>>}),
                c = NULL \/ filter = NULL, "Invalid arguments")

zvec_collection_flush ==
    \E c \in CollArgs :
        Forward("zvec_collection_flush", NullArgs({<<"collection", c>>}),
                c = NULL, "Invalid collection")

\* Collection::Destroy erases the storage; the handle stays allocated
zvec_collection_destroy_storage ==
    \E c \in CollArgs :
        LET call == [NoCall EXCEPT !.op = "zvec_collection_destroy_storage",
                        !.null = NullArgs({<<"collection", c>>})]
        IN  /\ Idle
            /\ UNCHANGED <<apart, collOptions, messages>>
            /\ IF c = NULL
               THEN /\ last' = [call EXCEPT !.status = InvalidArgument("Invalid collection")]
                    /\ UNCHANGED <<storage, collection, columns>>
               ELSE \E status \in EngineStatuses :
                    /\ last' = [call EXCEPT !.status = ForwardStatus(status),
                                            !.engine = TRUE, !.error = status,
                                            !.value  = (status.code = ZVEC_STATUS_OK)]
                    /\ storage' = (storage /\ status.code # ZVEC_STATUS_OK)
                    /\ columns' = IF status.code = ZVEC_STATUS_OK THEN {}
                                  ELSE columns
                    /\ collection' = IF status.code = ZVEC_STATUS_OK
                                     THEN "destroyed" ELSE collection
            /\ UNCHANGED res

(* ------------------------------------------- releasing document wrappers *)
\* `delete doc`
Delete(w) ==
    [w EXCEPT !.alloc = FALSE, !.frees = w.frees + 1, !.obj = Unref(w.obj)]

\* zvec_doc_free on a non-null handle: `if (doc && doc->owned) delete doc`
DocFree_always(w) == Delete(w)
DocFree(w) == IF w.owned THEN Delete(w) ELSE w

\* the wrapper zvec_collection_query makes for docs[i]
QueryDoc(retained) == Wrapper(FALSE, EngineDoc(retained))

\* the wrapper zvec_collection_group_by_query makes for docs[j]
GroupDoc_borrowed == Wrapper(FALSE, EngineDoc(TRUE))
GroupDoc == Wrapper(TRUE, CopiedDoc)

\* the wrapper zvec_collection_fetch makes for a map entry
FetchDoc(retained) == Wrapper(FALSE, EngineDoc(retained))

(* ------------------------------------------------------------------ DQL *)
\* Collection::Query: n documents, which the engine keeps a reference to
\* or not
QueryValues ==
    { [n |-> n, retained |-> r] : n \in 0..MaxDocs, r \in BOOLEAN }
    \ { [n |-> 0, retained |-> TRUE] }

DocList(elems) ==
    [kind |-> "list", ptr |-> "alloc", keys |-> NULL, count |-> Len(elems),
     elems |-> elems]

zvec_collection_query ==
    \E c \in CollArgs, query \in PtrArgs, out \in PtrArgs :
        LET call == [NoCall EXCEPT !.op = "zvec_collection_query",
                        !.null = NullArgs({<<"collection", c>>, <<"query", query>>,
                                           <<"out", out>>})]
        IN  /\ Idle
            /\ UNCHANGED docvars
            /\ Usable("list")
            /\ IF c = NULL \/ query = NULL \/ out = NULL
               THEN /\ last' = [call EXCEPT !.status = InvalidArgument("Invalid arguments")]
                    /\ UNCHANGED <<storage, collection, res>>
               ELSE \E result \in Expected(QueryValues) :
                    /\ last' = [call EXCEPT
                                  !.status = IF result.ok THEN ok_status
                                             ELSE to_c_status(result.error),
                                  !.engine = TRUE, !.error = result.error, !.value = result.ok]
                    /\ res' = IF result.ok
                              THEN DocList([i \in 1..result.value.n |->
                                              QueryDoc(result.value.retained)])
                              ELSE res
                    /\ UNCHANGED <<storage, collection>>

\* Collection::GroupByQuery: up to MaxGroups groups of up to MaxDocs documents
GroupValues == SeqsUpTo(0..MaxDocs, MaxGroups)

GroupResult(n) ==
    [group_by_value |-> "alloc", docs |-> DocList([j \in 1..n |-> GroupDoc])]

zvec_collection_group_by_query ==
    \E c \in CollArgs, query \in PtrArgs, out \in PtrArgs :
        LET call == [NoCall EXCEPT !.op = "zvec_collection_group_by_query",
                        !.null = NullArgs({<<"collection", c>>, <<"query", query>>,
                                           <<"out", out>>})]
        IN  /\ Idle
            /\ UNCHANGED docvars
            /\ Usable("groups")
            /\ IF c = NULL \/ query = NULL \/ out = NULL
               THEN /\ last' = [call EXCEPT !.status = InvalidArgument("Invalid arguments")]
                    /\ UNCHANGED <<storage, collection, res>>
               ELSE \E result \in Expected(GroupValues) :
                    /\ last' = [call EXCEPT
                                  !.status = IF result.ok THEN ok_status
                                             ELSE to_c_status(result.error),
                                  !.engine = TRUE, !.error = result.error, !.value = result.ok]
                    /\ res' = IF result.ok
                              THEN [kind |-> "groups", ptr |-> "alloc", keys |-> NULL,
                                    count |-> Len(result.value),
                                    elems |-> [i \in 1..Len(result.value) |->
                                                 GroupResult(result.value[i])]]
                              ELSE res
                    /\ UNCHANGED <<storage, collection>>

\* Collection::Fetch: the keys among those asked for that exist, in the
\* map's iteration order, and whether the engine keeps the documents
Range(s) == { s[i] : i \in 1..Len(s) }
Orders(K) ==
    { s \in SeqsUpTo(K, Cardinality(K)) : Len(s) = Cardinality(K) /\ Range(s) = K }
FetchValues(pks) ==
    { [keys |-> s, retained |-> r] :
        s \in UNION { Orders(K) : K \in SUBSET Range(pks) }, r \in BOOLEAN }
    \ { [keys |-> <<>>, retained |-> TRUE] }

zvec_collection_fetch ==
    \E c \in CollArgs, pks \in PkBatches, out \in PtrArgs :
        LET call == [NoCall EXCEPT !.op = "zvec_collection_fetch",
                        !.count = pks.count,
                        !.null = NullArgs({<<"collection", c>>, <<"out", out>>})
                                 \cup (IF pks.null THEN {"pks"} ELSE {})]
        IN  /\ Idle
            /\ UNCHANGED docvars
            /\ Usable("map")
            /\ IF c = NULL \/ pks.null \/ pks.count = 0 \/ out = NULL
               THEN /\ last' = [call EXCEPT !.status = InvalidArgument("Invalid arguments")]
                    /\ UNCHANGED <<storage, collection, res>>
               ELSE \E result \in Expected(FetchValues(pks.elems)) :
                    /\ last' = [call EXCEPT
                                  !.status = IF result.ok THEN ok_status
                                             ELSE to_c_status(result.error),
                                  !.engine = TRUE, !.error = result.error, !.value = result.ok,
                                  !.sent = CppPks(pks.elems)]
                    /\ res' = IF result.ok
                              THEN [kind |-> "map", ptr |-> "alloc", keys |-> "alloc",
                                    count |-> Len(result.value.keys),
                                    elems |-> [i \in 1..Len(result.value.keys) |->
                                        [key |-> result.value.keys[i],
                                         doc |-> FetchDoc(result.value.retained)]]]
                              ELSE res
                    /\ UNCHANGED <<storage, collection>>

(* ------------------------------------------------------- string arrays *)
\* Doc::field_names(): distinct names, in the engine's order
FieldNameValues ==
    { s \in SeqsUpTo({"f", "g"}, MaxNames) : Cardinality(Range(s)) = Len(s) }

\* the array is returned by value; the client keeps it in its slot
zvec_doc_field_names ==
    \E doc \in PtrArgs, names \in FieldNameValues :
        /\ Idle
        /\ UNCHANGED docvars
        /\ Usable("strings")
        /\ doc = NULL => names = <<>>
        /\ last' = [NoCall EXCEPT !.op = "zvec_doc_field_names",
                                  !.null = NullArgs({<<"doc", doc>>})]
        /\ res' = IF doc = NULL THEN Released("strings")
                  ELSE [kind |-> "strings", ptr |-> "alloc", keys |-> NULL,
                        count |-> Len(names), elems |-> names]
        /\ UNCHANGED <<storage, collection>>

(* ------------------------------------------------------------- release *)
\* one deallocation: what was freed, in which group (0: none), at which index
Tok(what, group, at) == [what |-> what, group |-> group, at |-> at]

RECURSIVE Flatten(_)
Flatten(ss) == IF ss = <<>> THEN <<>> ELSE Head(ss) \o Flatten(Tail(ss))

\* a container after its release function: element pointer(s) null, count 0
Zeroed_keep_count(r) == [r EXCEPT !.ptr = NULL, !.keys = NULL]
Zeroed(r) == Released(r.kind)

\* the loop of a release function runs over count elements; with count > 0
\* and the element pointer not pointing at the array it reads what is not there
ReadsFreed(r) == r.count > 0 /\ r.ptr # "alloc"

\* `free(p)`: nothing for the null pointer
FreeArray(ptr, what, group) ==
    IF ptr # NULL THEN <<Tok(what, group, 0)>> ELSE <<>>

\* zvec_doc_free called by the client on a handle of its result
ClientFree(w) == [DocFree(w) EXCEPT !.byClient = TRUE]

\* zvec_doc_list_free / zvec_doc_map_free on one element:
\* `docs[i]->owned = false; zvec_doc_free(docs[i])`.  On a wrapper already
\* deallocated this writes and reads freed memory: it is deleted again or not
FreeListed(w, again) ==
    IF w.alloc THEN DocFree([w EXCEPT !.owned = FALSE])
    ELSE IF again THEN Delete(w) ELSE w

\* the wrappers that were deallocated between `before` and `after`
DocDeallocs(before, after, group) ==
    Flatten([i \in 1..Len(before) |->
               IF after[i].frees > before[i].frees
               THEN <<Tok("doc", group, i)>> ELSE <<>>])

\* zvec_doc_list_free on a list (of group `group`): the list after, the
\* wrappers after, whether freed memory was touched, the deallocations
ListFree(r, group, again) ==
    LET after == [i \in 1..Len(r.elems) |-> FreeListed(r.elems[i], again)]
    IN  [res      |-> Zeroed(r),
         arg      |-> after,
         uaf      |-> ReadsFreed(r) \/ \E i \in 1..Len(r.elems) : ~r.elems[i].alloc,
         deallocs |-> DocDeallocs(r.elems, after, group)
                      \o FreeArray(r.ptr, "docs", group)]

\* zvec_group_results_free: per group the value string, then the list; then
\* the groups array
GroupsFree(r, again) ==
    LET parts == [g \in 1..Len(r.elems) |-> ListFree(r.elems[g].docs, g, again)]
    IN  [res      |-> Zeroed(r),
         arg      |-> Flatten([g \in 1..Len(r.elems) |-> parts[g].arg]),
         uaf      |-> ReadsFreed(r) \/ \E g \in 1..Len(r.elems) : parts[g].uaf,
         deallocs |-> Flatten([g \in 1..Len(r.elems) |->
                                 FreeArray(r.elems[g].group_by_value,
                                           "group_by_value", g)
                                 \o parts[g].deallocs])
                      \o FreeArray(r.ptr, "groups", 0)]

\* zvec_doc_map_free: per entry the key, then the document; then both arrays
MapFree(r, again) ==
    LET docs  == [i \in 1..Len(r.elems) |-> r.elems[i].doc]
        after == [i \in 1..Len(r.elems) |-> FreeListed(docs[i], again)]
    IN  [res      |-> Zeroed(r),
         arg      |-> after,
         uaf      |-> ReadsFreed(r) \/ \E i \in 1..Len(docs) : ~docs[i].alloc,
         deallocs |-> Flatten([i \in 1..Len(r.elems) |->
                                 <<Tok("key", 0, i)>>
                                 \o (IF after[i].frees > docs[i].frees
                                     THEN <<Tok("doc", 0, i)>> ELSE <<>>)])
                      \o FreeArray(r.keys, "keys", 0)
                      \o FreeArray(r.ptr, "docs", 0)]

\* zvec_status_free: `if (status && status->message) { free; message = nullptr }`
StatusFree_keep_message(st) == st
StatusFree(st) == [st EXCEPT !.message = NULL]

\* how often a release deallocated t
Times(deallocs, t) == Cardinality({ k \in DOMAIN deallocs : deallocs[k] = t })

\* `messages` with the deallocations of a release counted in
Counted(msgs, deallocs) ==
    [i \in DOMAIN msgs |->
        [msgs[i] EXCEPT !.frees = @ + Times(deallocs, Tok("message", 0, i))]]

\* zvec_write_results_free: zvec_status_free on every entry, then the array
WriteResultsFree(r, again) ==
    [res      |-> Zeroed(r),
     arg      |-> [i \in 1..Len(r.elems) |-> StatusFree(r.elems[i])],
     uaf      |-> ReadsFreed(r),
     deallocs |-> Flatten([i \in 1..Len(r.elems) |->
                             IF r.elems[i].message # NULL
                             THEN <<Tok("message", 0, i)>> ELSE <<>>])
                  \o FreeArray(r.ptr, "statuses", 0)]

\* zvec_string_array_free: every string, then the array
StringArrayFree(r, again) ==
    [res      |-> Zeroed(r),
     arg      |-> r.elems,
     uaf      |-> ReadsFreed(r),
     deallocs |-> Flatten([i \in 1..Len(r.elems) |-> <<Tok("string", 0, i)>>])
                  \o FreeArray(r.ptr, "strings", 0)]

\* the outcomes of touching freed memory are only chosen where it happens
Agains(effect) == IF effect.uaf THEN BOOLEAN ELSE {FALSE}

\* a release function called with the null pointer, or with the slot
Release(op, kind, ptr, effect) ==
    /\ Idle
    /\ UNCHANGED ownvars
    /\ ptr # NULL => res.kind \in {kind, "none"}
    /\ \/ /\ ptr = NULL
          /\ last' = [NoCall EXCEPT !.op = op, !.null = {"arg"}]
          /\ UNCHANGED <<res, messages>>
       \/ /\ ptr # NULL
          /\ last' = [NoCall EXCEPT !.op = op, !.count = Pointee(kind).count,
                                    !.uaf = effect.uaf,
                                    !.deallocs = effect.deallocs,
                                    !.arg = effect.arg,
                                    !.frees = IF kind = "wres"
                                              THEN Counted(messages, effect.deallocs)
                                              ELSE <<>>]
          /\ res' = effect.res
          /\ messages' = IF kind = "wres" THEN <<>> ELSE messages
    /\ UNCHANGED <<storage, collection>>

zvec_doc_list_free ==
    \E list \in PtrArgs, again \in Agains(ListFree(Pointee("list"), 0, FALSE)) :
        Release("zvec_doc_list_free", "list", list,
                ListFree(Pointee("list"), 0, again))

zvec_group_results_free ==
    \E results \in PtrArgs, again \in Agains(GroupsFree(Pointee("groups"), FALSE)) :
        Release("zvec_group_results_free", "groups", results,
                GroupsFree(Pointee("groups"), again))

zvec_doc_map_free ==
    \E map \in PtrArgs, again \in Agains(MapFree(Pointee("map"), FALSE)) :
        Release("zvec_doc_map_free", "map", map, MapFree(Pointee("map"), again))

zvec_write_results_free ==
    \E results \in PtrArgs :
        Release("zvec_write_results_free", "wres", results,
                WriteResultsFree(Pointee("wres"), FALSE))

zvec_string_array_free ==
    \E arr \in PtrArgs :
        Release("zvec_string_array_free", "strings", arr,
                StringArrayFree(Pointee("strings"), FALSE))

\* the client releases one Status of the write results it holds, in place
\* (or passes the null pointer): the message is deallocated when there is one
zvec_status_free ==
    /\ Idle
    /\ UNCHANGED ownvars
    /\ UNCHANGED <<storage, collection>>
    /\ \/ /\ last' = [NoCall EXCEPT !.op = "zvec_status_free", !.null = {"status"}]
          /\ UNCHANGED <<res, messages>>
       \/ /\ res.kind = "wres"
          /\ res.ptr # NULL
          /\ \E i \in 1..Len(res.elems) :
               LET st   == res.elems[i]
                   free == IF st.message # NULL THEN 1 ELSE 0
               IN  /\ res' = [res EXCEPT !.elems[i] = StatusFree(st)]
                   /\ messages' = [messages EXCEPT
                                     ![i].frees = Min(@ + free, MaxFrees)]
                   /\ last' = [NoCall EXCEPT
                                 !.op = "zvec_status_free", !.count = i,
                                 !.val = st,
                                 !.arg = <<StatusFree(st)>>,
                                 !.deallocs = IF st.message # NULL
                                              THEN <<Tok("message", 0, i)>>
                                              ELSE <<>>]

\* the client releases one document handle of the result it holds
zvec_doc_free ==
    /\ Idle
    /\ UNCHANGED docvars
    /\ UNCHANGED <<storage, collection>>
    /\ \/ /\ last' = [NoCall EXCEPT !.op = "zvec_doc_free", !.null = {"doc"}]
          /\ UNCHANGED res
       \/ /\ res.kind = "list"
          /\ \E i \in 1..Len(res.elems) :
               LET w == res.elems[i] IN
               /\ w.alloc /\ ~w.byClient
               /\ res' = [res EXCEPT !.elems[i] = ClientFree(w)]
               /\ last' = [NoCall EXCEPT !.op = "zvec_doc_free",
                                         !.arg = <<ClientFree(w)>>,
                                         !.deallocs = DocDeallocs(<<w>>, <<ClientFree(w)>>, 0)]
       \/ /\ res.kind = "map"
          /\ \E i \in 1..Len(res.elems) :
               LET w == res.elems[i].doc IN
               /\ w.alloc /\ ~w.byClient
               /\ res' = [res EXCEPT !.elems[i].doc = ClientFree(w)]
               /\ last' = [NoCall EXCEPT !.op = "zvec_doc_free",
                                         !.arg = <<ClientFree(w)>>,
                                         !.deallocs = DocDeallocs(<<w>>, <<ClientFree(w)>>, 0)]
       \/ /\ res.kind = "groups"
          /\ \E g \in 1..Len(res.elems) : \E j \in 1..Len(res.elems[g].docs.elems) :
               LET w == res.elems[g].docs.elems[j] IN
               /\ w.alloc /\ ~w.byClient
               /\ res' = [res EXCEPT !.elems[g].docs.elems[j] = ClientFree(w)]
               /\ last' = [NoCall EXCEPT !.op = "zvec_doc_free",
                                         !.arg = <<ClientFree(w)>>,
                                         !.deallocs = DocDeallocs(<<w>>, <<ClientFree(w)>>, g)]

(* -------------------------------------------- collection options handles *)
\* the options handles a client can pass: null, or the one in its slot
OptionsArgs ==
    IF res.kind = "acc" /\ res.ptr = "options" THEN {NULL, "ptr"} ELSE {NULL}

\* `return new zvec_collection_options_t`: the client keeps it in its slot
zvec_collection_options_new ==
    \E opts \in OptionValues :
        /\ Idle
        /\ UNCHANGED docvars
        /\ Usable("acc")
        /\ last' = [NoCall EXCEPT !.op = "zvec_collection_options_new",
                                  !.handle = "ptr"]
        /\ res' = Accessed("options", <<opts>>)
        /\ UNCHANGED <<storage, collection>>

\* `delete options`
zvec_collection_options_free ==
    \E options \in OptionsArgs :
        /\ Idle
        /\ UNCHANGED docvars
        /\ last' = [NoCall EXCEPT
                      !.op = "zvec_collection_options_free",
                      !.null = NullArgs({<<"options", options>>}),
                      !.deallocs = IF options = NULL THEN <<>>
                                   ELSE <<Tok("options", 0, 0)>>]
        /\ res' = IF options = NULL THEN res ELSE Released("none")
        /\ UNCHANGED <<storage, collection>>

\* `if (options) options->opts.<member> = <stored>`: nothing is returned
OptionsSet(op, options, member, value, stored) ==
    /\ Idle
    /\ UNCHANGED docvars
    /\ last' = [NoCall EXCEPT !.op = op, !.val = value,
                              !.null = NullArgs({<<"options", options>>})]
    /\ res' = IF options = NULL THEN res
              ELSE [res EXCEPT !.elems[1][member] = stored]
    /\ UNCHANGED <<storage, collection>>

zvec_collection_options_set_read_only ==
    \E options \in OptionsArgs, read_only \in BOOLEAN :
        OptionsSet("zvec_collection_options_set_read_only", options,
                   "read_only", read_only, read_only)

zvec_collection_options_set_enable_mmap ==
    \E options \in OptionsArgs, enable_mmap \in BOOLEAN :
        OptionsSet("zvec_collection_options_set_enable_mmap", options,
                   "enable_mmap", enable_mmap, enable_mmap)

zvec_collection_options_set_max_buffer_size ==
    \E options \in OptionsArgs, max_buffer_size \in U64s :
        OptionsSet("zvec_collection_options_set_max_buffer_size", options,
                   "max_buffer_size", max_buffer_size, Cast32(max_buffer_size))

(* ------------------------------------------- listing what is registered *)
\* IndexFactory::AllMetrics() and its three siblings: the names registered
Registered(kind) == SubSeq(RegNames, 1, registry[kind])

\* the engine registers one more implementation of a kind
EngineRegisters ==
    \E kind \in Kinds :
        /\ registry[kind] < Len(RegNames)
        /\ registry' = [registry EXCEPT ![kind] = @ + 1]
        /\ UNCHANGED <<handlevars, last, cache, firstList, threads>>

\* `if (cached.empty()) { cached = All...(); cached_ptrs.reserve(...);
\*  for (const auto& m : cached) cached_ptrs.push_back(m.c_str()); }`
\* run by one thread without another in the function
Populate(c, names) ==
    IF c.strings = <<>>
    THEN [strings |-> names,
          ptrs    |-> c.ptrs \o [i \in 1..Len(names) |-> CStr(names[i])]]
    ELSE c

\* the names a pointer array shows to who reads through it
Shown(ptrs) == [i \in 1..Len(ptrs) |-> ptrs[i].name]

\* a listing function called by the client: `*out = cached_ptrs.data();
\* return (int)cached_ptrs.size();` (out is written through unchecked)
ListRegistered(op, kind) ==
    \E out \in PtrArgs :
        LET c == Populate(cache[kind], Registered(kind)) IN
        /\ Idle
        /\ \A t \in Threads : threads[t].pc = "out"
        /\ cache' = [cache EXCEPT ![kind] = c]
        /\ last' = IF out = NULL
                   THEN [NoCall EXCEPT !.op = op, !.null = {"out"},
                                       !.deref = {"out"}]
                   ELSE [NoCall EXCEPT !.op = op, !.field = kind,
                                       !.out = Shown(c.ptrs),
                                       !.len = Len(c.ptrs)]
        /\ firstList' = IF out # NULL /\ ~firstList[kind].called
                        THEN [firstList EXCEPT ![kind] =
                                [called |-> TRUE, names |-> Shown(c.ptrs)]]
                        ELSE firstList
        /\ UNCHANGED <<handlevars, registry, threads>>

zvec_list_registered_metrics ==
    ListRegistered("zvec_list_registered_metrics", "metrics")
zvec_list_registered_builders ==
    ListRegistered("zvec_list_registered_builders", "builders")
zvec_list_registered_searchers ==
    ListRegistered("zvec_list_registered_searchers", "searchers")
zvec_list_registered_streamers ==
    ListRegistered("zvec_list_registered_streamers", "streamers")

(* ----------------------- zvec_list_registered_metrics, statement by statement *)
\* nothing orders the statements of two threads in the function: each
\* action below is one statement of one thread

\* the thread calls the function: the statics exist, it is at the test
ThreadEnters ==
    \E t \in Threads :
        /\ threads[t].pc = "out"
        /\ threads' = [threads EXCEPT ![t].pc = "test"]
        /\ UNCHANGED <<handlevars, last, registry, firstList, cache>>

\* `if (cached_metrics.empty())`
ThreadTests ==
    \E t \in Threads :
        /\ threads[t].pc = "test"
        /\ threads' = [threads EXCEPT ![t].pc =
                          IF cache["metrics"].strings = <<>> THEN "assign"
                          ELSE "return"]
        /\ UNCHANGED <<handlevars, last, registry, firstList, cache>>

\* `cached_metrics = AllMetrics()`: the strings the vector held are
\* destroyed, and the pointers into them are stale
ThreadAssigns ==
    \E t \in Threads :
        /\ threads[t].pc = "assign"
        /\ threads' = [threads EXCEPT ![t].pc = "push", ![t].i = 1]
        /\ cache' = [cache EXCEPT
                       !["metrics"].strings = Registered("metrics"),
                       !["metrics"].ptrs =
                           [k \in 1..Len(@) |-> [@[k] EXCEPT !.stale = TRUE]]]
        /\ UNCHANGED <<handlevars, last, registry, firstList>>

\* one round of `for (const auto& m : cached_metrics)
\* cached_ptrs.push_back(m.c_str())`, or its end
ThreadPushes ==
    \E t \in Threads :
        LET i == threads[t].i
            c == cache["metrics"]
        IN  /\ threads[t].pc = "push"
            /\ IF i <= Len(c.strings)
               THEN /\ threads' = [threads EXCEPT ![t].i = i + 1]
                    /\ cache' = [cache EXCEPT !["metrics"].ptrs =
                                    Append(@, CStr(c.strings[i]))]
               ELSE /\ threads' = [threads EXCEPT ![t].pc = "return"]
                    /\ UNCHANGED cache
            /\ UNCHANGED <<handlevars, last, registry, firstList>>

\* `*out_metrics = cached_ptrs.data(); return (int)cached_ptrs.size();`:
\* the caller has the array of the cache and the count of this moment
ThreadReturns ==
    \E t \in Threads :
        /\ threads[t].pc = "return"
        /\ threads' = [threads EXCEPT ![t].pc = "done",
                                      ![t].count = Len(cache["metrics"].ptrs)]
        /\ UNCHANGED <<handlevars, last, registry, firstList, cache>>

(* ------------------------------------------------------ schema snapshots *)
\* the schema handles of zvec_collection_schema a client can pass: null,
\* or the one in its slot
\* `if (schema && schema->owned) delete schema`
zvec_collection_schema_free ==
    \E schema \in IF res.kind = "acc" /\ res.ptr = "schema"
                  THEN {NULL, "ptr"} ELSE {NULL} :
        LET freed == schema # NULL /\ res.elems[1].owned IN
        /\ Idle
        /\ UNCHANGED docvars
        /\ last' = [NoCall EXCEPT
                      !.op = "zvec_collection_schema_free",
                      !.null = NullArgs({<<"schema", schema>>}),
                      !.deallocs = IF freed THEN <<Tok("schema", 0, 0)>>
                                   ELSE <<>>]
        /\ res' = IF freed THEN Released("none") ELSE res
        /\ UNCHANGED <<storage, collection>>

\* the columns a schema handle of zvec_collection_schema shows: its own,
\* unless it holds the engine's object
SchemaColumns(schema) == IF schema.live THEN columns ELSE schema.columns

(* --------------------------------------------------------------- schemas *)
\* the field handles a client can pass: null, or one it has made
FieldHandleArgs == {NULL} \cup { h \in FieldHandles : fieldObjs[h] # NoField }
\* the schema handles it can pass
SchemaArgs == IF theSchema.made THEN {NULL, "ptr"} ELSE {NULL}

\* the body of the two constructors: `std::string(name)` reads through
\* name, and on the null pointer the call does not return
FieldSchemaNew(op, name, field) ==
    /\ Idle
    /\ \E g \in FieldHandles : fieldObjs[g] = NoField
    /\ LET h == CHOOSE g \in FieldHandles : fieldObjs[g] = NoField IN
       IF name = NULL
       THEN /\ last' = [NoCall EXCEPT !.op = op, !.null = {"name"},
                                      !.deref = {"name"}]
            /\ UNCHANGED fieldObjs
       ELSE /\ last' = [NoCall EXCEPT !.op = op, !.handle = h]
            /\ fieldObjs' = [fieldObjs EXCEPT ![h] = field]
    /\ UNCHANGED <<beyondSchema, res, theSchema>>

\* zvec::FieldSchema(name, type): nullable is what the engine defaults to
zvec_field_schema_new ==
    \E name \in {NULL} \cup Fields, data_type \in DataTypes, nullable \in BOOLEAN :
        FieldSchemaNew("zvec_field_schema_new", name,
                       FieldSchema(name, data_type, 0, nullable))

\* zvec::FieldSchema(name, type, dimension, false)
zvec_field_schema_new_with_dimension ==
    \E name \in {NULL} \cup Fields, data_type \in DataTypes,
       dimension \in Dimensions :
        FieldSchemaNew("zvec_field_schema_new_with_dimension", name,
                       FieldSchema(name, data_type, dimension, FALSE))

\* `if (schema && schema->ptr) schema->ptr->set_...(...)`: the object the
\* handle points at is changed
FieldSchemaSet(op, h, more, member, value) ==
    LET null == NullArgs({<<"schema", h>>} \cup more) IN
    /\ Idle
    /\ last' = [NoCall EXCEPT !.op = op, !.null = null, !.handle = h]
    /\ fieldObjs' = IF null = {} THEN [fieldObjs EXCEPT ![h][member] = value]
                    ELSE fieldObjs
    /\ UNCHANGED <<beyondSchema, res, theSchema>>

zvec_field_schema_set_nullable ==
    \E h \in FieldHandleArgs, nullable \in BOOLEAN :
        FieldSchemaSet("zvec_field_schema_set_nullable", h, {},
                       "nullable", nullable)

zvec_field_schema_set_dimension ==
    \E h \in FieldHandleArgs, dimension \in Dimensions :
        FieldSchemaSet("zvec_field_schema_set_dimension", h, {},
                       "dimension", dimension)

zvec_field_schema_set_index_params ==
    \E h \in FieldHandleArgs, params \in PtrArgs :
        FieldSchemaSet("zvec_field_schema_set_index_params", h,
                       {<<"params", params>>}, "index_params", params)

\* `new zvec_collection_schema_t` around a zvec::CollectionSchema(name)
zvec_collection_schema_new ==
    \E name \in PtrArgs :
        /\ Idle
        /\ ~theSchema.made
        /\ IF name = NULL
           THEN /\ last' = [NoCall EXCEPT !.op = "zvec_collection_schema_new",
                                          !.null = {"name"}, !.deref = {"name"}]
                /\ UNCHANGED theSchema
           ELSE /\ last' = [NoCall EXCEPT !.op = "zvec_collection_schema_new",
                                          !.handle = "ptr"]
                /\ theSchema' = [made |-> TRUE, fields |-> <<>>]
        /\ UNCHANGED <<beyondSchema, res, fieldObjs>>

\* the fields a schema holds, as they are now
SchemaFields(schema) ==
    [i \in 1..Len(schema.fields) |-> fieldObjs[schema.fields[i]]]

\* CollectionSchema::add_field(FieldSchema::Ptr): refused when the schema
\* has a field of that name; else the pointer is appended, or the engine
\* refuses the field for what it holds
EngineAddField(schema, h) ==
    LET refused ==
            { [status |-> [code |-> code, message |-> "engine error"],
               schema |-> schema] :
                code \in {ZVEC_STATUS_ALREADY_EXISTS,
                          ZVEC_STATUS_INVALID_ARGUMENT} }
    IN  IF \E i \in 1..Len(schema.fields) :
               SchemaFields(schema)[i].name = fieldObjs[h].name
        THEN refused
        ELSE { [status |-> EngineOK,
                schema |-> [schema EXCEPT !.fields = Append(@, h)]] }
             \cup refused

\* `schema->ptr->add_field(field->ptr)`: the engine is given the shared
\* pointer of the caller's handle
zvec_collection_schema_add_field ==
    \E schema \in SchemaArgs, h \in FieldHandleArgs :
        LET call == [NoCall EXCEPT
                       !.op = "zvec_collection_schema_add_field",
                       !.handle = h,
                       !.null = NullArgs({<<"schema", schema>>, <<"field", h>>})]
        IN  /\ Idle
            /\ IF schema = NULL \/ h = NULL
               THEN /\ last' = [call EXCEPT !.status =
                                   InvalidArgument("Invalid schema or field pointer")]
                    /\ UNCHANGED theSchema
               ELSE \E result \in EngineAddField(theSchema, h) :
                    /\ last' = [call EXCEPT
                                  !.status = ForwardStatus(result.status),
                                  !.engine = TRUE, !.error = result.status,
                                  !.value  = (result.status.code = ZVEC_STATUS_OK),
                                  !.field  = fieldObjs[h].name]
                    /\ theSchema' = result.schema
            /\ UNCHANGED <<beyondSchema, res, fieldObjs>>

\* zvec_collection_schema_field_names: all_field_names(), each strdup'ed
\* into a malloc'ed array; the client keeps the array in its slot
zvec_collection_schema_field_names ==
    \E schema \in SchemaArgs :
        LET names == [i \in 1..Len(theSchema.fields) |->
                        SchemaFields(theSchema)[i].name]
        IN  /\ Idle
            /\ Usable("strings")
            /\ last' = [NoCall EXCEPT
                          !.op = "zvec_collection_schema_field_names",
                          !.null = NullArgs({<<"schema", schema>>})]
            /\ res' = IF schema = NULL THEN Released("strings")
                      ELSE [kind |-> "strings", ptr |-> "alloc", keys |-> NULL,
                            count |-> Len(names), elems |-> names]
            /\ UNCHANGED <<beyondSchema, fieldObjs, theSchema>>

(* ------------------------------------------------ the client's document *)
\* zvec_doc_new: the client, having released its document, makes another
zvec_doc_new ==
    /\ Idle
    /\ ~docHandle.alloc
    /\ docHandle' = MadeDoc
    /\ theDoc' = NoDoc
    /\ last' = [NoCall EXCEPT !.op = "zvec_doc_new", !.handle = "ptr"]
    /\ UNCHANGED <<storage, collection, res, messages, theQuery, statics,
                   schemavars, columns, collOptions>>

\* zvec_doc_free on the document the client made with zvec_doc_new
zvec_doc_free_client ==
    \E d \in DocArgs :
        /\ Idle
        /\ docHandle' = IF d = NULL THEN docHandle ELSE ClientFree(docHandle)
        /\ last' = [NoCall EXCEPT
                      !.op = "zvec_doc_free",
                      !.null = NullArgs({<<"doc", d>>}),
                      !.arg = IF d = NULL THEN <<>>
                              ELSE <<ClientFree(docHandle)>>]
        /\ UNCHANGED <<storage, collection, res, messages, theDoc, theQuery,
                       statics, schemavars, columns, collOptions>>

(* ------------------------------------------------ document field setters *)
\* the field argument of a call: null, or a name
FieldArgs == {NULL} \cup Fields

\* a {pointer, count} argument pair: the null pointer with some count, or
\* an array with its length
ArrayArgsOf(arrays) ==
    { [ptr |-> NULL, count |-> n, elems |-> <<>>] : n \in {0, 1} }
    \cup { [ptr |-> "ptr", count |-> Len(a), elems |-> a] : a \in arrays }
ArrayArgs == ArrayArgsOf(Arrays)

\* the record of a call on the client's document
DocCall(op, d, field, more) ==
    [NoCall EXCEPT !.op = op, !.field = field,
                   !.null = NullArgs({<<"doc", d>>, <<"field", field>>} \cup more)]

\* Doc::set(name, value): the entry is overwritten, type and value
DocSet(fields, field, value) == [fields EXCEPT ![field] = value]

\* `set_field_helper(doc->ptr.get(), field, value)`: doc is dereferenced
\* before anything is tested; on the null pointer the call does not return,
\* or the load yields null and set_field_helper refuses
ScalarSet(op, type, kind, values) ==
    \E d \in DocArgs, field \in FieldArgs, value \in values :
        LET call == DocCall(op, d, field, {}) IN
        /\ Idle
        /\ UNCHANGED <<collvars, theQuery>>
        /\ IF d = NULL
           THEN /\ \E st \in {NoStatus, InvalidArgument("Invalid doc or field")} :
                     last' = [call EXCEPT !.status = st, !.deref = {"doc"}]
                /\ UNCHANGED theDoc
           ELSE IF field = NULL
           THEN /\ last' = [call EXCEPT !.status = InvalidArgument("Invalid doc or field")]
                /\ UNCHANGED theDoc
           ELSE /\ last' = [call EXCEPT !.status = ok_status, !.val = value]
                /\ theDoc' = DocSet(theDoc, field, Value(type, kind, value))

zvec_doc_set_bool == ScalarSet("zvec_doc_set_bool", "bool", "bool", Scalars)
zvec_doc_set_int32 == ScalarSet("zvec_doc_set_int32", "int32_t", "int32", Scalars)
zvec_doc_set_int64 == ScalarSet("zvec_doc_set_int64", "int64_t", "int64", Scalars)
zvec_doc_set_uint32 == ScalarSet("zvec_doc_set_uint32", "uint32_t", "uint32", Unread)
zvec_doc_set_uint64 == ScalarSet("zvec_doc_set_uint64", "uint64_t", "uint64", Unread)
zvec_doc_set_float == ScalarSet("zvec_doc_set_float", "float", "float", Scalars)
zvec_doc_set_double == ScalarSet("zvec_doc_set_double", "double", "double", Scalars)

\* doc and field are tested; `std::string(value)` reads through value, and
\* on the null pointer the call does not return
zvec_doc_set_string ==
    \E d \in DocArgs, field \in FieldArgs, value \in {NULL} \cup Strings :
        LET call == DocCall("zvec_doc_set_string", d, field, {<<"value", value>>}) IN
        /\ Idle
        /\ UNCHANGED <<collvars, theQuery>>
        /\ IF d = NULL \/ field = NULL
           THEN /\ last' = [call EXCEPT !.status = InvalidArgument("Invalid doc or field")]
                /\ UNCHANGED theDoc
           ELSE IF value = NULL
           THEN /\ last' = [call EXCEPT !.deref = {"value"}]
                /\ UNCHANGED theDoc
           ELSE /\ last' = [call EXCEPT !.status = ok_status, !.val = value]
                /\ theDoc' = DocSet(theDoc, field,
                                    Value("std::string", "string", value))

\* `doc->ptr->set_null(std::string(field))`
SetNull_erase(fields, field) == [fields EXCEPT ![field] = Absent]
SetNull(fields, field) == [fields EXCEPT ![field] = Null]

\* nothing is done without a doc or a field, and nothing is reported
zvec_doc_set_null ==
    \E d \in DocArgs, field \in FieldArgs :
        /\ Idle
        /\ UNCHANGED <<collvars, theQuery>>
        /\ last' = DocCall("zvec_doc_set_null", d, field, {})
        /\ theDoc' = IF d # NULL /\ field # NULL THEN SetNull(theDoc, field)
                     ELSE theDoc

\* the vector and array setters: doc, field and data are tested, then
\* `std::vector<T> vec(data, data + len)` is stored
ArraySet(op, type, kind, arrays) ==
    \E d \in DocArgs, field \in FieldArgs, data \in ArrayArgsOf(arrays) :
        LET call == DocCall(op, d, field, {<<"data", data.ptr>>}) IN
        /\ Idle
        /\ UNCHANGED <<collvars, theQuery>>
        /\ IF d = NULL \/ field = NULL \/ data.ptr = NULL
           THEN /\ last' = [call EXCEPT !.status = InvalidArgument("Invalid arguments")]
                /\ UNCHANGED theDoc
           ELSE /\ last' = [call EXCEPT !.status = ok_status,
                                        !.val = data.elems, !.count = data.count]
                /\ theDoc' = DocSet(theDoc, field, Value(type, kind, data.elems))

zvec_doc_set_vector_fp32 ==
    ArraySet("zvec_doc_set_vector_fp32", "std::vector<float>", "vector_fp32",
             Arrays)
zvec_doc_set_vector_fp64 ==
    ArraySet("zvec_doc_set_vector_fp64", "std::vector<double>", "vector_fp64",
             UnreadArrays)
zvec_doc_set_vector_int8 ==
    ArraySet("zvec_doc_set_vector_int8", "std::vector<int8_t>", "vector_int8",
             UnreadArrays)
zvec_doc_set_vector_int16 ==
    ArraySet("zvec_doc_set_vector_int16", "std::vector<int16_t>", "vector_int16",
             UnreadArrays)
zvec_doc_set_vector_int32 ==
    ArraySet("zvec_doc_set_vector_int32", "std::vector<int32_t>", "vector_int32",
             UnreadArrays)
zvec_doc_set_vector_int64 ==
    ArraySet("zvec_doc_set_vector_int64", "std::vector<int64_t>", "vector_int64",
             UnreadArrays)
zvec_doc_set_array_int32 ==
    ArraySet("zvec_doc_set_array_int32", "std::vector<int32_t>", "array_int32",
             UnreadArrays)
zvec_doc_set_array_int64 ==
    ArraySet("zvec_doc_set_array_int64", "std::vector<int64_t>", "array_int64",
             UnreadArrays)
zvec_doc_set_array_float ==
    ArraySet("zvec_doc_set_array_float", "std::vector<float>", "array_float",
             Arrays)
zvec_doc_set_array_double ==
    ArraySet("zvec_doc_set_array_double", "std::vector<double>", "array_double",
             UnreadArrays)
zvec_doc_set_array_string ==
    ArraySet("zvec_doc_set_array_string", "std::vector<std::string>", "array_string",
             UnreadArrays)

(* -------------------------------------------------------- sparse vectors *)
\* the test both sparse setters make on the two {pointer, count} pairs
SparseInvalid_no_count(indices, values) ==
    indices.ptr = NULL \/ values.ptr = NULL
SparseInvalid(indices, values) ==
    indices.ptr = NULL \/ values.ptr = NULL \/ indices.count # values.count

\* the pair of vectors built from the two arrays
SparsePair(indices, values) == [indices |-> indices.elems, values |-> values.elems]

zvec_doc_set_sparse_vector_fp32 ==
    \E d \in DocArgs, field \in FieldArgs, indices \in ArrayArgs, values \in ArrayArgs :
        LET call == [DocCall("zvec_doc_set_sparse_vector_fp32", d, field,
                             {<<"indices", indices.ptr>>, <<"values", values.ptr>>})
                       EXCEPT !.count = indices.count,
                              !.len = values.count] IN
        /\ Idle
        /\ UNCHANGED <<collvars, theQuery>>
        /\ IF d = NULL \/ field = NULL \/ SparseInvalid(indices, values)
           THEN /\ last' = [call EXCEPT !.status = InvalidArgument("Invalid arguments")]
                /\ UNCHANGED theDoc
           ELSE /\ last' = [call EXCEPT !.status = ok_status,
                                        !.val = SparsePair(indices, values)]
                /\ theDoc' = DocSet(theDoc, field,
                                    Value("std::pair<std::vector<uint32_t>, std::vector<float>>",
                                          "sparse_vector_fp32",
                                          SparsePair(indices, values)))

\* the indices buffer is stored first, then the values buffer
zvec_vector_query_set_sparse_vector_fp32 ==
    \E q \in PtrArgs, indices \in ArrayArgs, values \in ArrayArgs :
        LET call == [NoCall EXCEPT
                       !.op = "zvec_vector_query_set_sparse_vector_fp32",
                       !.null = NullArgs({<<"query", q>>, <<"indices", indices.ptr>>,
                                          <<"values", values.ptr>>}),
                       !.count = indices.count,
                       !.len = values.count] IN
        /\ Idle
        /\ UNCHANGED <<collvars, theDoc>>
        /\ IF q = NULL \/ SparseInvalid(indices, values)
           THEN /\ last' = [call EXCEPT !.status = InvalidArgument("Invalid arguments")]
                /\ UNCHANGED theQuery
           ELSE /\ last' = [call EXCEPT !.status = ok_status,
                                        !.val = SparsePair(indices, values)]
                /\ theQuery' = [sparse_indices |-> indices.elems,
                                sparse_values  |-> values.elems]

(* ------------------------------------------------ document field getters *)
\* Doc::get<T>(name): the value when the entry was stored as a T
HasType(fields, field, type) == fields[field].type = type

\* zvec_doc_get_bool .. zvec_doc_get_double: *out_value is written only
\* when the field holds that type
ScalarGet(op, type) ==
    \E d \in DocArgs, field \in FieldArgs, out_value \in PtrArgs :
        LET call == DocCall(op, d, field, {<<"out_value", out_value>>}) IN
        /\ Idle
        /\ UNCHANGED <<collvars, docvars>>
        /\ last' = IF /\ d # NULL /\ field # NULL /\ out_value # NULL
                      /\ HasType(theDoc, field, type)
                   THEN [call EXCEPT !.found = TRUE,
                                     !.out = <<theDoc[field].val>>]
                   ELSE call

zvec_doc_get_bool == ScalarGet("zvec_doc_get_bool", "bool")
zvec_doc_get_int32 == ScalarGet("zvec_doc_get_int32", "int32_t")
zvec_doc_get_int64 == ScalarGet("zvec_doc_get_int64", "int64_t")
zvec_doc_get_float == ScalarGet("zvec_doc_get_float", "float")
zvec_doc_get_double == ScalarGet("zvec_doc_get_double", "double")

\* `auto result = get<std::string>(...); *out_value = result.value().c_str()`:
\* the pointer goes into the local `result`, destroyed when the function
\* returns; what the caller reads through it is any string
zvec_doc_get_string ==
    \E d \in DocArgs, field \in FieldArgs, out_value \in PtrArgs :
        LET call == DocCall("zvec_doc_get_string", d, field,
                            {<<"out_value", out_value>>}) IN
        /\ Idle
        /\ UNCHANGED <<collvars, docvars>>
        /\ IF /\ d # NULL /\ field # NULL /\ out_value # NULL
              /\ HasType(theDoc, field, "std::string")
           THEN \E read \in Strings :
                  last' = [call EXCEPT !.found = TRUE, !.out = <<read>>,
                                       !.dangling = TRUE, !.lives = "local"]
           ELSE last' = call

\* zvec_doc_get_vector_fp32: with a buffer and max_len > 0 the first
\* min(size, max_len) elements are copied and size is returned
zvec_doc_get_vector_fp32 ==
    \E d \in DocArgs, field \in FieldArgs, out_data \in PtrArgs,
       max_len \in 0..MaxVec :
        LET call == [DocCall("zvec_doc_get_vector_fp32", d, field,
                             {<<"out_data", out_data>>})
                       EXCEPT !.count = max_len] IN
        /\ Idle
        /\ UNCHANGED <<collvars, docvars>>
        /\ last' = IF /\ d # NULL /\ field # NULL /\ out_data # NULL /\ max_len > 0
                      /\ HasType(theDoc, field, "std::vector<float>")
                   THEN LET vec == theDoc[field].val IN
                        [call EXCEPT !.len = Len(vec),
                                     !.out = SubSeq(vec, 1, Min(Len(vec), max_len))]
                   ELSE call

\* Doc::has, Doc::has_value, Doc::is_null
Has(fields, field) == fields[field].type # "absent"
HasValue(fields, field) == fields[field].type \notin {"absent", "null"}
IsNull(fields, field) == fields[field].type = "null"

\* `doc && doc->ptr && field && doc->ptr->has(field)` and its two siblings
Predicate(op, d, field, holds) ==
    /\ Idle
    /\ UNCHANGED <<collvars, docvars>>
    /\ last' = [DocCall(op, d, field, {}) EXCEPT
                  !.found = (d # NULL /\ field # NULL /\ holds)]

zvec_doc_has ==
    \E d \in DocArgs, field \in FieldArgs :
        Predicate("zvec_doc_has", d, field, field # NULL /\ Has(theDoc, field))

zvec_doc_has_value ==
    \E d \in DocArgs, field \in FieldArgs :
        Predicate("zvec_doc_has_value", d, field,
                  field # NULL /\ HasValue(theDoc, field))

zvec_doc_is_null ==
    \E d \in DocArgs, field \in FieldArgs :
        Predicate("zvec_doc_is_null", d, field,
                  field # NULL /\ IsNull(theDoc, field))

(* ------------------------------------------------------- specifications *)
Next ==
    \/ ClientContinues
    \/ zvec_collection_create_and_open
    \/ zvec_collection_open
    \/ zvec_collection_destroy
    \/ zvec_collection_insert
    \/ zvec_collection_upsert
    \/ zvec_collection_update
    \/ zvec_collection_delete
    \/ zvec_collection_path
    \/ zvec_collection_schema
    \/ zvec_collection_options
    \/ zvec_collection_stats
    \/ zvec_collection_create_index
    \/ zvec_collection_drop_index
    \/ zvec_collection_optimize
    \/ zvec_collection_add_column
    \/ zvec_collection_drop_column
    \/ zvec_collection_alter_column
    \/ zvec_collection_delete_by_filter
    \/ zvec_collection_flush
    \/ zvec_collection_destroy_storage
    \/ zvec_collection_query
    \/ zvec_collection_group_by_query
    \/ zvec_collection_fetch
    \/ zvec_doc_field_names
    \/ zvec_doc_free
    \/ zvec_doc_list_free
    \/ zvec_group_results_free
    \/ zvec_doc_map_free
    \/ zvec_write_results_free
    \/ zvec_string_array_free
    \/ zvec_status_ok
    \/ zvec_status_free

Spec == Init /\ [][Next]_vars

\* a client building and reading one document
DocNext ==
    \/ ClientContinues
    \/ zvec_doc_set_bool
    \/ zvec_doc_set_int32
    \/ zvec_doc_set_int64
    \/ zvec_doc_set_uint32
    \/ zvec_doc_set_uint64
    \/ zvec_doc_set_float
    \/ zvec_doc_set_double
    \/ zvec_doc_set_string
    \/ zvec_doc_set_null
    \/ zvec_doc_set_vector_fp32
    \/ zvec_doc_set_vector_fp64
    \/ zvec_doc_set_vector_int8
    \/ zvec_doc_set_vector_int16
    \/ zvec_doc_set_vector_int32
    \/ zvec_doc_set_vector_int64
    \/ zvec_doc_set_sparse_vector_fp32
    \/ zvec_doc_set_array_int32
    \/ zvec_doc_set_array_int64
    \/ zvec_doc_set_array_float
    \/ zvec_doc_set_array_double
    \/ zvec_doc_set_array_string
    \/ zvec_doc_get_bool
    \/ zvec_doc_get_int32
    \/ zvec_doc_get_int64
    \/ zvec_doc_get_float
    \/ zvec_doc_get_double
    \/ zvec_doc_get_string
    \/ zvec_doc_get_vector_fp32
    \/ zvec_doc_has
    \/ zvec_doc_has_value
    \/ zvec_doc_is_null

DocInit == Init /\ ~storage

DocSpec == DocInit /\ [][DocNext]_vars

\* a client setting sparse vectors in a document and in a query
SparseNext ==
    \/ ClientContinues
    \/ zvec_doc_set_null
    \/ zvec_doc_set_sparse_vector_fp32
    \/ zvec_vector_query_set_sparse_vector_fp32

SparseSpec == DocInit /\ [][SparseNext]_vars

\* a client building one options handle
OptionsNext ==
    \/ ClientContinues
    \/ zvec_collection_options_new
    \/ zvec_collection_options_free
    \/ zvec_collection_options_set_read_only
    \/ zvec_collection_options_set_enable_mmap
    \/ zvec_collection_options_set_max_buffer_size

OptionsSpec == DocInit /\ [][OptionsNext]_vars

\* a client listing what is registered while the engine registers
RegistryNext ==
    \/ ClientContinues
    \/ EngineRegisters
    \/ zvec_list_registered_metrics
    \/ zvec_list_registered_builders
    \/ zvec_list_registered_searchers
    \/ zvec_list_registered_streamers

RegistrySpec == DocInit /\ [][RegistryNext]_vars

\* two threads, each calling zvec_list_registered_metrics once
RaceNext ==
    \/ EngineRegisters
    \/ ThreadEnters
    \/ ThreadTests
    \/ ThreadAssigns
    \/ ThreadPushes
    \/ ThreadReturns

RaceSpec == DocInit /\ [][RaceNext]_vars

\* a client building field schemas and one collection schema
SchemaNext ==
    \/ ClientContinues
    \/ zvec_field_schema_new
    \/ zvec_field_schema_new_with_dimension
    \/ zvec_field_schema_set_nullable
    \/ zvec_field_schema_set_dimension
    \/ zvec_field_schema_set_index_params
    \/ zvec_collection_schema_new
    \/ zvec_collection_schema_add_field
    \/ zvec_collection_schema_field_names

SchemaSpec == DocInit /\ [][SchemaNext]_vars

\* a client taking schema and options snapshots of a collection whose
\* columns it changes
SnapshotNext ==
    \/ ClientContinues
    \/ zvec_collection_create_and_open
    \/ zvec_collection_destroy
    \/ zvec_collection_add_column
    \/ zvec_collection_drop_column
    \/ zvec_collection_schema
    \/ zvec_collection_options
    \/ zvec_collection_schema_free
    \/ zvec_collection_options_free
    \/ zvec_collection_options_set_read_only
    \/ zvec_collection_options_set_enable_mmap
    \/ zvec_collection_options_set_max_buffer_size

SnapshotSpec == DocInit /\ [][SnapshotNext]_vars

\* a client filling one document and writing it to a collection
WriteNext ==
    \/ ClientContinues
    \/ zvec_collection_create_and_open
    \/ zvec_doc_new
    \/ zvec_doc_free_client
    \/ zvec_doc_set_int32
    \/ zvec_doc_set_null
    \/ zvec_collection_insert
    \/ zvec_collection_upsert
    \/ zvec_collection_update

WriteSpec == DocInit /\ [][WriteNext]_vars

(* ================================================================ claims *)
DocOps ==
    {"zvec_collection_insert", "zvec_collection_upsert", "zvec_collection_update"}
WriteOps == DocOps \cup {"zvec_collection_delete"}
Count(seq, t) == Cardinality({ i \in DOMAIN seq : seq[i] = t })

\* C1: when insert, upsert or update is given N >= 1 handles (null ones among
\* them or not) and out_results, and returns OK, out_results->count is N and
\* statuses[i] is the engine's outcome for input element i.
C1_OneStatusPerInput ==
    ( /\ last.op \in DocOps
      /\ last.count >= 1
      /\ "out_results" \notin last.null
      /\ last.status.code = ZVEC_STATUS_OK )
    => /\ res.kind = "wres"
       /\ res.count = last.count
       /\ \A i \in 1..last.count :
            /\ i <= Len(last.sent)
            /\ last.sent[i] = i
            /\ res.elems[i].code = last.rows[i].code

\* C2: whenever the engine returned a result sequence for insert, upsert,
\* update or delete, the Status returned is OK whatever the rows say, and
\* every row of WriteResults carries the engine's Status of that same row.
C2_BatchStatusIgnoresRows ==
    (last.op \in WriteOps /\ last.value)
    => /\ last.status = ok_status
       /\ "out_results" \notin last.null
          => /\ res.kind = "wres"
             /\ res.count = Len(last.rows)
             /\ \A i \in 1..Len(last.rows) :
                  /\ res.elems[i].code = last.rows[i].code
                  /\ last.rows[i].message # ""
                     => res.elems[i].message = last.rows[i].message

\* a batch in which one row failed and a sibling row succeeded
C2_Witness ==
    /\ last.op \in WriteOps
    /\ last.value
    /\ "out_results" \notin last.null
    /\ \E i, j \in 1..Len(last.rows) :
         /\ last.rows[i].code # ZVEC_STATUS_OK
         /\ last.rows[j].code = ZVEC_STATUS_OK

\* C3: after zvec_doc_list_free on a populated list (a query's list, or a
\* group's list through zvec_group_results_free) every wrapper the list
\* held has been deallocated.
C3_ListFreeReleasesWrappers ==
    ( /\ last.op \in {"zvec_doc_list_free", "zvec_group_results_free"}
      /\ last.arg # <<>> )
    => \A i \in 1..Len(last.arg) : ~last.arg[i].alloc

\* C4: zvec_doc_free on a borrowed handle of a query result deallocates the
\* wrapper and leaves the document it refers to alive.
C4_BorrowedFreeReleasesWrapper ==
    ( /\ last.op = "zvec_doc_free"
      /\ last.arg # <<>>
      /\ res.kind = "list"
      /\ ~last.arg[1].owned )
    => /\ ~last.arg[1].alloc
       /\ last.arg[1].obj.live

\* C5: zvec_doc_map_free on a populated map deallocates every document
\* handle exactly once and every key exactly once, before the two arrays.
C5_MapFreeReleasesEachOnce ==
    ( /\ last.op = "zvec_doc_map_free"
      /\ last.count > 0 )
    => /\ \A i \in 1..last.count :
            /\ Count(last.deallocs, Tok("doc", 0, i)) = 1
            /\ Count(last.deallocs, Tok("key", 0, i)) = 1
       /\ \A m, n \in DOMAIN last.deallocs :
            ( /\ last.deallocs[m].what \in {"doc", "key"}
              /\ last.deallocs[n].what \in {"docs", "keys"} ) => m < n

\* the wrappers of the query result the client holds or has just released
QueryWrappers ==
    IF res.kind = "list" /\ res.ptr # NULL THEN Range(res.elems)
    ELSE IF last.op = "zvec_doc_list_free" THEN Range(last.arg)
    ELSE {}

\* C6: however the client mixes zvec_doc_free on documents of a query
\* result (each at most once) with a final zvec_doc_list_free, no wrapper
\* is deallocated twice, no deallocated wrapper is read or written, and no
\* document the engine or a live wrapper still refers to is destroyed.
C6_QueryListReleaseIsSafe ==
    /\ last.op = "zvec_doc_list_free" => ~last.uaf
    /\ \A w \in QueryWrappers :
         /\ w.frees <= 1
         /\ (w.obj.engine \/ w.alloc) => w.obj.live

\* a list released after the client freed one of its documents and not
\* another, the engine still holding them
C6_Witness ==
    /\ last.op = "zvec_doc_list_free"
    /\ \E i, j \in 1..Len(last.arg) :
         /\ last.arg[i].byClient
         /\ ~last.arg[j].byClient
         /\ last.arg[i].obj.engine

\* the document handles a fetch or a group-by query has just returned
ReturnedDocs ==
    IF res.kind = "map" THEN { res.elems[i].doc : i \in 1..Len(res.elems) }
    ELSE IF res.kind = "groups"
    THEN UNION { Range(res.elems[g].docs.elems) : g \in 1..Len(res.elems) }
    ELSE {}
IsOwnedCopy(w) ==
    w.owned /\ w.obj.copy /\ ~w.obj.engine /\ w.obj.refs = 1

OutOps ==
    WriteOps \cup
    {"zvec_collection_path", "zvec_collection_schema", "zvec_collection_options",
     "zvec_collection_stats", "zvec_collection_query",
     "zvec_collection_group_by_query", "zvec_collection_fetch"}

\* C8: a call that returns a Status other than OK, from its own argument
\* check or from the engine, leaves the pointee of its out-parameter as it was.
C8_FailureLeavesOutParam ==
    [][ (last'.op \in OutOps /\ last'.status.code # ZVEC_STATUS_OK)
        => res' = res ]_vars

\* a query that the engine failed, made with a populated list as pointee
C8_Witness ==
    /\ last.op = "zvec_collection_query"
    /\ last.engine
    /\ last.status.code # ZVEC_STATUS_OK
    /\ res.kind = "list"
    /\ res.count > 0

ReleaseOps ==
    {"zvec_string_array_free", "zvec_doc_list_free", "zvec_write_results_free",
     "zvec_doc_map_free", "zvec_group_results_free"}

\* C9: each release function leaves its argument with null element
\* pointer(s) and count 0, and called on an argument in that state it
\* deallocates nothing, touches no freed memory and leaves it so.
C9_ReleaseIsIdempotent ==
    [][ (last'.op \in ReleaseOps /\ "arg" \notin last'.null)
        => /\ IsReleased(res')
           /\ IsReleased(res) => /\ last'.deallocs = <<>>
                                 /\ ~last'.uaf ]_vars

\* a map released, and its release function called on it once more
C9_Witness ==
    /\ last.op = "zvec_doc_map_free"
    /\ "arg" \notin last.null
    /\ last.count = 0
    /\ last.deallocs = <<>>
    /\ res = Released("map")

OpenOps == {"zvec_collection_create_and_open", "zvec_collection_open"}
BatchOps == WriteOps \cup {"zvec_collection_fetch"}
FacadeOps ==
    OutOps \cup OpenOps \cup
    {"zvec_collection_create_index", "zvec_collection_drop_index",
     "zvec_collection_optimize", "zvec_collection_add_column",
     "zvec_collection_drop_column", "zvec_collection_alter_column",
     "zvec_collection_delete_by_filter", "zvec_collection_flush",
     "zvec_collection_destroy_storage"}

\* the arguments the code refuses when null
CheckedArgs ==
    {"collection", "path", "schema", "column_name", "index_params",
     "column_schema", "expression", "filter", "docs", "pks", "query", "out"}
\* the out-pointers the code accepts null
OptionalOuts == {"out_results", "out_status"}

RefusedLocally ==
    /\ ~last.engine
    /\ ~last.value
    /\ last.status.code = ZVEC_STATUS_INVALID_ARGUMENT
    /\ last.status.message \notin {NULL, ""}

\* C10 as stated: a facade operation given a null collection handle, a
\* null required argument (any out-pointer included) or a batch count of 0
\* returns INVALID_ARGUMENT with a message and never calls the engine.
C10_NullArgumentRefused ==
    ( /\ last.op \in FacadeOps
      /\ \/ last.null \cap (CheckedArgs \cup OptionalOuts) # {}
         \/ last.op \in BatchOps /\ last.count = 0 )
    => RefusedLocally

\* C10 as amended: the same for the arguments other than out_results of
\* insert/upsert/update/delete and out_status of create_and_open/open;
\* the two constructors report the failure through out_status when it is
\* given, and return no handle.
C10_CheckedArgumentRefused ==
    ( /\ last.op \in FacadeOps
      /\ \/ last.null \cap CheckedArgs # {}
         \/ last.op \in BatchOps /\ last.count = 0 )
    => IF last.op \in OpenOps /\ "out_status" \in last.null
       THEN ~last.engine /\ ~last.value /\ last.status = NoStatus
       ELSE RefusedLocally

\* a delete of zero keys, every pointer given
C10_Witness ==
    /\ last.op = "zvec_collection_delete"
    /\ last.null = {}
    /\ last.count = 0
    /\ RefusedLocally

(* ---------------------------------------------- claims on the document *)
ScalarSetters ==
    {"zvec_doc_set_bool", "zvec_doc_set_int32", "zvec_doc_set_int64",
     "zvec_doc_set_uint32", "zvec_doc_set_uint64", "zvec_doc_set_float",
     "zvec_doc_set_double"}
ArraySetters ==
    {"zvec_doc_set_vector_fp32", "zvec_doc_set_vector_fp64",
     "zvec_doc_set_vector_int8", "zvec_doc_set_vector_int16",
     "zvec_doc_set_vector_int32", "zvec_doc_set_vector_int64",
     "zvec_doc_set_array_int32", "zvec_doc_set_array_int64",
     "zvec_doc_set_array_float", "zvec_doc_set_array_double",
     "zvec_doc_set_array_string"}
StatusSetters ==
    ScalarSetters \cup ArraySetters
    \cup {"zvec_doc_set_string", "zvec_doc_set_sparse_vector_fp32"}

HasMessage(status) == status.message \notin {NULL, ""}

\* C11: a field setter that returns a Status, called with a null document,
\* a null field name or a null value/data pointer, returns INVALID_ARGUMENT
\* with a message, leaves the document as it was and dereferences none of
\* its null arguments.
C11_NullSetterArgRefused ==
    [][ (last'.op \in StatusSetters /\ last'.null # {})
        => /\ last'.status.code = ZVEC_STATUS_INVALID_ARGUMENT
           /\ HasMessage(last'.status)
           /\ last'.deref = {}
           /\ theDoc' = theDoc ]_vars

SparseSetters ==
    {"zvec_doc_set_sparse_vector_fp32", "zvec_vector_query_set_sparse_vector_fp32"}

\* C12: both sparse setters, given indices_count # values_count, return
\* INVALID_ARGUMENT and leave the document field, respectively the query's
\* sparse indices and values, as they were; given equal counts (and no null
\* argument) they store index and value sequences of that length.
C12_SparseCountsMustMatch ==
    [][ last'.op \in SparseSetters
        => /\ last'.count # last'.len
              => /\ last'.status.code = ZVEC_STATUS_INVALID_ARGUMENT
                 /\ theDoc' = theDoc
                 /\ theQuery' = theQuery
           /\ (last'.count = last'.len /\ last'.null = {})
              => /\ last'.status = ok_status
                 /\ IF last'.op = "zvec_doc_set_sparse_vector_fp32"
                    THEN /\ theDoc'[last'.field].kind = "sparse_vector_fp32"
                         /\ Len(theDoc'[last'.field].val.indices) = last'.count
                         /\ Len(theDoc'[last'.field].val.values) = last'.count
                    ELSE /\ Len(theQuery'.sparse_indices) = last'.count
                         /\ Len(theQuery'.sparse_values) = last'.count ]_vars

\* a query holding a sparse vector was given one more index than values
C12_Witness ==
    /\ last.op = "zvec_vector_query_set_sparse_vector_fp32"
    /\ last.null = {}
    /\ last.count = last.len + 1
    /\ last.status.code = ZVEC_STATUS_INVALID_ARGUMENT
    /\ Len(theQuery.sparse_indices) > 0
    /\ Len(theQuery.sparse_indices) = Len(theQuery.sparse_values)

(* ------------------------------------------- claims on the status channel *)
\* the call that has just returned handed a Status to the caller
Reported == last.op # "none" /\ last.status # NoStatus

\* the rows of the WriteResults the call that has just returned filled
FilledRows ==
    IF last.op \in WriteOps /\ last.value /\ "out_results" \notin last.null
    THEN res.elems ELSE <<>>

\* C13 as stated: every Status other than OK that crosses the boundary,
\* from a local check or converted from the engine (returned, or a row of
\* WriteResults), has a message that is not null.
C13_FailureHasMessage ==
    /\ (Reported /\ last.status.code # ZVEC_STATUS_OK)
       => last.status.message # NULL
    /\ \A i \in 1..Len(FilledRows) :
         FilledRows[i].code # ZVEC_STATUS_OK => FilledRows[i].message # NULL

\* C13 as amended: a Status other than OK from a local check has a message;
\* one converted from an engine Status (returned, or a row of WriteResults)
\* has the engine's message when that is not empty and the null message
\* when it is empty.
C13_FailureHasMessageUnlessEngineGaveNone ==
    /\ (Reported /\ ~last.engine /\ last.status.code # ZVEC_STATUS_OK)
       => HasMessage(last.status)
    /\ (Reported /\ last.engine /\ last.status.code # ZVEC_STATUS_OK)
       => IF last.error.message = "" THEN last.status.message = NULL
          ELSE last.status.message = last.error.message
    /\ \A i \in 1..Len(FilledRows) :
         FilledRows[i].code # ZVEC_STATUS_OK
         => IF last.rows[i].message = "" THEN FilledRows[i].message = NULL
            ELSE FilledRows[i].message = last.rows[i].message

\* the engine failed a flush without giving a message
C13_Witness ==
    /\ last.op = "zvec_collection_flush"
    /\ last.engine
    /\ last.error.code = ZVEC_STATUS_NOT_FOUND
    /\ last.error.message = ""
    /\ last.status = [code |-> ZVEC_STATUS_NOT_FOUND, message |-> NULL]

\* C14: every Status with code OK that crosses the boundary has the null
\* message: what a call returns, every row of WriteResults converted from
\* an engine Status, and the value of zvec_status_ok.
C14_OkHasNoMessage ==
    /\ (Reported /\ last.status.code = ZVEC_STATUS_OK)
       => last.status.message = NULL
    /\ \A i \in 1..Len(FilledRows) :
         FilledRows[i].code = ZVEC_STATUS_OK => FilledRows[i].message = NULL

\* a batch of two rows, one of which the engine accepted
C14_Witness ==
    /\ last.op = "zvec_collection_upsert"
    /\ Len(FilledRows) = 2
    /\ FilledRows[1].code = ZVEC_STATUS_OK
    /\ FilledRows[2].code # ZVEC_STATUS_OK

\* the text of a message: the null message stands for the empty text
Text(message) == IF message = NULL THEN "" ELSE message

\* C15: when the engine fails a forwarded operation with code c and
\* message m, the Status handed to the caller has code c and the text m
\* (no text, the null message, for an empty m); no other code or text is
\* put in its place.
C15_EngineErrorForwarded ==
    (Reported /\ last.engine /\ last.error.code # ZVEC_STATUS_OK)
    => /\ last.status.code = last.error.code
       /\ Text(last.status.message) = last.error.message

\* the engine failed a flush with INTERNAL_ERROR and a message
C15_Witness ==
    /\ last.op = "zvec_collection_flush"
    /\ last.engine
    /\ last.error = [code |-> ZVEC_STATUS_INTERNAL_ERROR, message |-> "engine error"]
    /\ last.status = [code |-> ZVEC_STATUS_INTERNAL_ERROR, message |-> "engine error"]

(* ------------------------------------------------ claims on the lifecycle *)
\* the facade operations that take a collection handle
HandleOps == FacadeOps \ OpenOps

C17_OpenOutcomesFollowStorage ==
    [][ /\ ( /\ last'.op = "zvec_collection_create_and_open"
             /\ last'.engine /\ last'.status # NoStatus )
           => (last'.status.code = ZVEC_STATUS_ALREADY_EXISTS <=> storage)
        /\ ( /\ last'.op = "zvec_collection_open"
             /\ last'.engine /\ last'.status # NoStatus )
           => (last'.status.code = ZVEC_STATUS_NOT_FOUND <=> ~storage)
        /\ (last'.op \in OpenOps /\ last'.status # NoStatus)
           => (last'.handle # NULL <=> last'.status.code = ZVEC_STATUS_OK)
        /\ last'.op \in OpenOps
           => storage' = (storage \/ last'.handle # NULL)
        /\ last'.op = "zvec_collection_destroy" => storage' = storage
        /\ ( /\ last'.op = "zvec_collection_destroy_storage"
             /\ last'.status.code = ZVEC_STATUS_OK )
           => ~storage' ]_vars

\* a handle was released with zvec_collection_destroy, and a
\* create_and_open on the path then found the storage still there
C17_Witness ==
    /\ last.op = "zvec_collection_create_and_open"
    /\ last.status.code = ZVEC_STATUS_ALREADY_EXISTS
    /\ last.handle = NULL
    /\ collection = "freed"
    /\ storage

(* ------------------------------------------- claims on document fields *)
\* the kind of the data model each getter reads
GetterKind ==
    [op \in {"zvec_doc_get_bool", "zvec_doc_get_int32", "zvec_doc_get_int64",
             "zvec_doc_get_float", "zvec_doc_get_double", "zvec_doc_get_string",
             "zvec_doc_get_vector_fp32"} |->
        CASE op = "zvec_doc_get_bool"   -> "bool"
          [] op = "zvec_doc_get_int32"  -> "int32"
          [] op = "zvec_doc_get_int64"  -> "int64"
          [] op = "zvec_doc_get_float"  -> "float"
          [] op = "zvec_doc_get_double" -> "double"
          [] op = "zvec_doc_get_string" -> "string"
          [] OTHER                      -> "vector_fp32"]
Getters == DOMAIN GetterKind
ScalarGetters == Getters \ {"zvec_doc_get_vector_fp32"}

\* a call on the document that was given every pointer
OnField(ops) == last.op \in ops /\ last.null = {}

\* C18: for bool, int32, int64, float, double, string and the fp32 vector,
\* the getter of the kind a field was last set with returns success and
\* exactly the value that was set (the vector getter being given room for
\* it); zvec_doc_has is false for a field never set.
C18_SetThenGetRoundTrips ==
    /\ ( /\ OnField(ScalarGetters)
         /\ theDoc[last.field].kind = GetterKind[last.op] )
       => /\ last.found
          /\ ~last.dangling
          /\ last.out = <<theDoc[last.field].val>>
    /\ ( /\ OnField({"zvec_doc_get_vector_fp32"})
         /\ theDoc[last.field].kind = "vector_fp32"
         /\ last.count >= Len(theDoc[last.field].val) )
       => /\ last.len = Len(theDoc[last.field].val)
          /\ last.out = theDoc[last.field].val
    /\ ( /\ OnField({"zvec_doc_has"})
         /\ theDoc[last.field].kind = "none" )
       => ~last.found

Readers == Getters \cup {"zvec_doc_has", "zvec_doc_has_value", "zvec_doc_is_null"}

\* C19: zvec_doc_set_null(doc, f) makes f present and null whatever it held
\* and leaves every other field as it was; on such a field zvec_doc_has is
\* true, zvec_doc_has_value false, zvec_doc_is_null true, and every typed
\* getter reports not-found.
C19_SetNullMarksPresentNull ==
    [][ /\ (last'.op = "zvec_doc_set_null" /\ last'.null = {})
           => /\ theDoc'[last'.field] = Null
              /\ \A g \in Fields \ {last'.field} : theDoc'[g] = theDoc[g]
        /\ ( /\ last'.op \in Readers
             /\ last'.null = {}
             /\ theDoc'[last'.field].kind = "null" )
           => /\ last'.op = "zvec_doc_has" => last'.found
              /\ last'.op = "zvec_doc_has_value" => ~last'.found
              /\ last'.op = "zvec_doc_is_null" => last'.found
              /\ last'.op \in Getters
                 => ~last'.found /\ last'.len = 0 /\ last'.out = <<>> ]_vars

\* a field set to null next to a field holding a string
C19_Witness ==
    /\ OnField({"zvec_doc_set_null"})
    /\ theDoc[last.field] = Null
    /\ \E g \in Fields \ {last.field} : theDoc[g].kind = "string"

\* C20: a field holds the one tagged value of its last setter: a getter of
\* any other kind reports not-found (false, or length 0) and writes nothing
\* through its out-pointer; so for every pair of distinct kinds.
C20_OtherKindNotFound ==
    ( /\ OnField(Getters)
      /\ theDoc[last.field].kind # GetterKind[last.op] )
    => /\ ~last.found
       /\ last.len = 0
       /\ last.out = <<>>

\* C21: for a field holding an fp32 vector of n elements,
\* zvec_doc_get_vector_fp32 returns n for every capacity max_len (0 and
\* values below n included) and writes exactly min(n, max_len) elements,
\* never more than max_len.
C21_VectorGetterReportsTrueLength ==
    ( /\ last.op = "zvec_doc_get_vector_fp32"
      /\ last.null = {}
      /\ theDoc[last.field].kind = "vector_fp32" )
    => LET vec == theDoc[last.field].val IN
       /\ last.len = Len(vec)
       /\ last.out = SubSeq(vec, 1, Min(Len(vec), last.count))
       /\ Len(last.out) <= last.count

\* C29: for populated write results, any sequence of zvec_status_free calls
\* on its entries (repeats allowed) followed by zvec_write_results_free
\* deallocates each entry's message exactly once; zvec_status_free leaves
\* the message null and the code as it was, and on a Status whose message
\* is null already it deallocates nothing.
C29_EachMessageFreedOnce ==
    /\ \A i \in DOMAIN messages : messages[i].frees <= 1
    /\ (last.op = "zvec_write_results_free" /\ last.null = {})
       => \A i \in DOMAIN last.frees :
            last.frees[i].frees = (IF last.frees[i].had THEN 1 ELSE 0)
    /\ (last.op = "zvec_status_free" /\ last.null = {})
       => /\ last.arg[1].message = NULL
          /\ last.arg[1].code = last.val.code
          /\ res.elems[last.count] = last.arg[1]
          /\ last.val.message = NULL => last.deallocs = <<>>

\* write results released after zvec_status_free had released the message
\* of one entry and not that of another: the release deallocates the second
\* message only
C29_Witness ==
    /\ last.op = "zvec_write_results_free"
    /\ \E i, j \in DOMAIN last.frees :
         /\ last.frees[i].had /\ Times(last.deallocs, Tok("message", 0, i)) = 0
         /\ last.frees[j].had /\ Times(last.deallocs, Tok("message", 0, j)) = 1

\* a 32-bit value widened to 64 bits, and whether a 64-bit value is below 2^32
Widened(w) == w \o <<0, 0>>
Below2_32(v) == v[3] = 0 /\ v[4] = 0

\* C30: zvec_collection_options_set_max_buffer_size stores the 64-bit value
\* reduced modulo 2^32 (exactly when it is below 2^32, else the value whose
\* two high words are dropped) and reports nothing; read_only and
\* enable_mmap of the handle are as before.
C30_MaxBufferSizeKeepsLow32Bits ==
    [][ ( /\ last'.op = "zvec_collection_options_set_max_buffer_size"
          /\ last'.null = {} )
        => LET v      == last'.val
               before == res.elems[1]
               after  == res'.elems[1]
           IN  /\ Len(after.max_buffer_size) = 2
               /\ v = after.max_buffer_size \o SubSeq(v, 3, 4)
               /\ Below2_32(v) => Widened(after.max_buffer_size) = v
               /\ after.read_only = before.read_only
               /\ after.enable_mmap = before.enable_mmap
               /\ last'.status = NoStatus ]_vars

\* 2^32 + 1 was stored as 1 in a read-only handle
C30_Witness ==
    /\ last.op = "zvec_collection_options_set_max_buffer_size"
    /\ last.null = {}
    /\ last.val = <<1, 0, 1, 0>>
    /\ res.elems[1].max_buffer_size = <<1, 0>>
    /\ res.elems[1].read_only

ListOps ==
    {"zvec_list_registered_metrics", "zvec_list_registered_builders",
     "zvec_list_registered_searchers", "zvec_list_registered_streamers"}

\* C27: each listing function fills its cache once, on its first call:
\* every later call returns the list the first call returned (same count,
\* names and order), whatever the engine registers in between, also when
\* the first call found no name.
C27_ListIsTheFirstList ==
    (last.op \in ListOps /\ last.null = {})
    => /\ firstList[last.field].called
       /\ last.out = firstList[last.field].names
       /\ last.len = Len(firstList[last.field].names)

\* C28: when two threads make the first call to a listing function at the
\* same time, under every interleaving each call returns a completely built
\* list holding each name the engine reported exactly once, and the count
\* returned is the number of names the engine reported.
C28_ConcurrentFirstCallsAgree ==
    \A t \in Threads :
        threads[t].pc = "done"
        => LET c == cache["metrics"] IN
           /\ threads[t].count = Len(c.strings)
           /\ Shown(c.ptrs) = c.strings
           /\ \A k \in 1..Len(c.ptrs) : ~c.ptrs[k].stale

(* ---------------------------------------------------------- C22, C23 *)
\* the names in a sequence are pairwise distinct
PairwiseDistinct(names) ==
    \A i, j \in 1..Len(names) : (names[i] = names[j]) => (i = j)

\* the names of the fields a schema holds
NamesOf(schema) ==
    [i \in 1..Len(schema.fields) |-> SchemaFields(schema)[i].name]

\* C22: a zvec_collection_schema_add_field call whose field name the
\* schema already has returns ALREADY_EXISTS or INVALID_ARGUMENT and leaves
\* the schema's fields as they were (the first field of that name keeps
\* its type, nullability and dimension); so the schema's field names, and
\* the names zvec_collection_schema_field_names reports, are pairwise
\* distinct.
C22_DuplicateFieldRefused ==
    [][ /\ ( /\ Idle
             /\ last'.op = "zvec_collection_schema_add_field"
             /\ last'.null = {}
             /\ \E i \in 1..Len(theSchema.fields) :
                    NamesOf(theSchema)[i] = last'.field )
           => /\ last'.status.code \in
                     {ZVEC_STATUS_ALREADY_EXISTS, ZVEC_STATUS_INVALID_ARGUMENT}
              /\ theSchema' = theSchema
              /\ SchemaFields(theSchema)' = SchemaFields(theSchema)
        /\ PairwiseDistinct(NamesOf(theSchema))'
        /\ ( /\ last'.op = "zvec_collection_schema_field_names"
             /\ last'.null = {} )
           => /\ res'.elems = NamesOf(theSchema)
              /\ PairwiseDistinct(res'.elems) ]_vars

\* a second handle made with the name of the field the schema holds, but
\* another type, was refused
C22_Witness ==
    /\ last.op = "zvec_collection_schema_add_field"
    /\ last.null = {}
    /\ theSchema.fields = <<"h1">>
    /\ last.handle = "h2"
    /\ fieldObjs["h2"].name = fieldObjs["h1"].name
    /\ fieldObjs["h2"].data_type # fieldObjs["h1"].data_type
    /\ last.status.code = ZVEC_STATUS_ALREADY_EXISTS

\* the three setters of a field handle
FieldSetters ==
    {"zvec_field_schema_set_nullable", "zvec_field_schema_set_dimension",
     "zvec_field_schema_set_index_params"}

\* C23: once a field handle has been added to a CollectionSchema, a
\* zvec_field_schema_set_nullable, zvec_field_schema_set_dimension or
\* zvec_field_schema_set_index_params call on that handle does not change
\* the field as the CollectionSchema holds it.
C23_AttachedFieldImmutable ==
    [][ ( /\ Idle
          /\ last'.op \in FieldSetters
          /\ last'.null = {}
          /\ \E i \in 1..Len(theSchema.fields) :
                 theSchema.fields[i] = last'.handle )
        => SchemaFields(theSchema)' = SchemaFields(theSchema) ]_vars

(* ----------------------------------------------------------------- C24 *)
\* the client's slot holds a handle from zvec_collection_schema or
\* zvec_collection_options (or from zvec_collection_options_new)
HoldsSnapshot == res.kind = "acc" /\ res.ptr \in {"schema", "options"}

\* what the handle in the slot shows
SnapshotShows ==
    IF res.ptr = "schema" THEN SchemaColumns(res.elems[1]) ELSE res.elems[1]

\* the calls that change the collection or release its handle
CollectionChanges ==
    {"zvec_collection_add_column", "zvec_collection_drop_column",
     "zvec_collection_destroy"}

\* the calls that change or release a snapshot
SnapshotChanges ==
    {"zvec_collection_schema_free", "zvec_collection_options_free",
     "zvec_collection_options_set_read_only",
     "zvec_collection_options_set_enable_mmap",
     "zvec_collection_options_set_max_buffer_size"}

\* C24: zvec_collection_schema and zvec_collection_options each store a
\* newly allocated owned handle holding a copy of what the collection has
\* at the call; a later add_column or drop_column on the collection, and
\* the destruction of the collection handle, leave a snapshot held by the
\* client showing what it showed; setting a member of a snapshot or
\* releasing it leaves the collection as it was.
C24_SnapshotsAreCopies ==
    [][ Idle =>
        /\ ( /\ last'.op = "zvec_collection_schema"
             /\ last'.value )
           => /\ last'.lives = "new"
              /\ res'.kind = "acc" /\ res'.ptr = "schema"
              /\ res'.elems[1].owned
              /\ SnapshotShows' = columns
        /\ ( /\ last'.op = "zvec_collection_options"
             /\ last'.value )
           => /\ last'.lives = "new"
              /\ res'.kind = "acc" /\ res'.ptr = "options"
              /\ res'.elems[1] = collOptions
        /\ ( /\ HoldsSnapshot
             /\ last'.op \in CollectionChanges
             /\ last'.null = {} )
           => /\ HoldsSnapshot'
              /\ SnapshotShows' = SnapshotShows
        /\ ( /\ HoldsSnapshot
             /\ last'.op \in SnapshotChanges
             /\ last'.null = {} )
           => /\ columns' = columns
              /\ collOptions' = collOptions
              /\ collection' = collection
              /\ storage' = storage ]_vars

\* a schema snapshot taken before a column was added still shows no column
C24_Witness ==
    /\ last.op = "zvec_collection_add_column"
    /\ last.value
    /\ res.kind = "acc" /\ res.ptr = "schema"
    /\ res.elems[1].columns = {}
    /\ columns = ColumnNames

(* ----------------------------------------------------------------- C26 *)
\* the single-value accessors that hand out a string
StringAccessors ==
    {"zvec_doc_pk", "zvec_doc_get_string", "zvec_field_schema_name",
     "zvec_collection_schema_name", "zvec_collection_path"}

\* C26: the string a single-value accessor returned points into storage
\* the handle it was read from owns: it is not an allocation of its own
\* that the caller would have to free, and not storage that is gone when
\* the call returns.
C26_StringLivesInItsHandle ==
    ( /\ last.op \in StringAccessors
      /\ last.null = {}
      /\ last.value \/ last.found )
    => last.lives = "handle"

(* ----------------------------------------------------------------- C25 *)
\* the three calls that are given documents
DocWrites ==
    {"zvec_collection_insert", "zvec_collection_upsert",
     "zvec_collection_update"}

\* C25: zvec_collection_insert, zvec_collection_upsert and
\* zvec_collection_update, whatever they return, leave the caller's
\* document handle allocated and tagged owned and its contents as they
\* were; the engine is never left holding the caller's document object, so
\* a later setter call or release on the handle changes only the caller's
\* document, not what the engine received.
C25_WritesCopyTheirInput ==
    [][ Idle =>
        /\ (last'.op \in DocWrites /\ docHandle.alloc)
           => /\ docHandle'.alloc
              /\ docHandle'.owned
              /\ docHandle'.obj = docHandle.obj
              /\ theDoc' = theDoc
        /\ ~docHandle'.obj.engine
        /\ (last'.op = "zvec_doc_free" /\ last'.null = {} /\ docHandle.alloc)
           => /\ ~docHandle'.alloc
              /\ docHandle'.frees = 1 ]_vars

\* the engine took the client's document (the client holds the write
\* results), and the client has since set a field of it
C25_Witness ==
    /\ res.kind = "wres"
    /\ res.count >= 1
    /\ last.op = "zvec_doc_set_int32"
    /\ last.null = {}
    /\ docHandle.alloc
====
